---- MODULE Spec2Model ----
(***************************************************************************)
(* Shared-bus peripheral layer of the OpenClaw dual display command        *)
(* center: two SPI display drivers (ILI9488 "d1", ILI9341 "d2"), the       *)
(* XPT2046 touch poller, and the locks that serialise them.                *)
(*                                                                         *)
(* SpecInit  : DisplayCommandCenter.initialize: the displays' retry state   *)
(*             machine, the reset timing, the touch controller set-up.     *)
(* Spec      : the running application as seen from the bus: the two       *)
(*             render loops and the touch poll loop, transfer by transfer. *)
(* SpecLocks : the running application as seen from its locks: what every  *)
(*             thread acquires and releases, in program order.             *)
(* SpecCodec : the functions of the drivers, each applied on its own.      *)
(* SpecGesture : the touch poll loop while it runs, with the clock.        *)
(* SpecRotary : the rotary encoder handler: initialize and the poll loop.  *)
(* SpecLoops : the four polling loops, iteration by iteration, with the    *)
(*             errors an iteration can raise.                              *)
(***************************************************************************)
EXTENDS Integers, Sequences, FiniteSets, TLC

(***************************************************************************)
(* Bounds of the model.                                                    *)
(***************************************************************************)
\* Panel dimensions used by the concurrent specifications (the real panels
\* are 480x320 and 320x240; the frame is scaled so that it still needs more
\* than one transfer on the large display).
ModelWidth == 48
ModelHeight == 32
\* time.sleep(s) returns after at least s: the extra delay, in ms.
MaxJitter == 1
\* The clock when the application starts, in ms (any value more than the
\* debounce window after 0), and the time the gesture model runs for.
ClockOrigin == 1000
MaxElapsed == 1100

(***************************************************************************)
(* Program constants.                                                      *)
(***************************************************************************)
max_retries == 3
MAX_XFER == 4096
RETRY_BACKOFF_MS == 500
RESET_HIGH_MS == 50
RESET_LOW_MS == 50
RESET_SETTLE_MS == 150
debounce_ms == 100
long_press_threshold == 1000
DISPLAY_SPEED_HZ == 16000000
TOUCH_SPEED_HZ == 1500000

\* config.SMALL_DISPLAY and config.TOUCH, as shipped.
SMALL_DISPLAY == [width |-> 320, height |-> 240]
TOUCH ==
  [min_pressure |-> 300, x_min |-> 572, x_max |-> 3676, y_min |-> 777,
   y_max |-> 3476, swap_xy |-> TRUE, invert_x |-> TRUE, invert_y |-> TRUE]

CMD_SWRESET == 1
CMD_SLPOUT == 17
CMD_NORON == 19
CMD_DISPON == 41
CMD_CASET == 42
CMD_PASET == 43
CMD_RAMWR == 44
CMD_MADCTL == 54
CMD_COLMOD == 58

Displays == {"d1", "d2"}
Devices == {"d1", "d2", "touch"}
BusThreads == {"d1", "d2", "touch"}
AuxThreads == {"rotary", "lcd", "lcdsync", "timer"}
Threads == {"main"} \cup BusThreads \cup AuxThreads
\* The threads that run a polling loop of a driver.
LoopThreads == {"d1", "d2", "touch", "rotary"}
NoThread == "nobody"
Locks == {"spi_lock", "display1.lock", "display2.lock",
          "notification_lock", "scroll_lock", "lcd.lock"}

\* spi.open(bus, device): the spidev node each handle is opened on.  The
\* large display and the touch controller both open (0, 0).
Node(dev) == IF dev = "d2" THEN "spidev0.1" ELSE "spidev0.0"
Nodes == {"spidev0.0", "spidev0.1"}

BytesPerPixel(d) == IF d = "d1" THEN 3 ELSE 2
FrameLen(d) == ModelWidth * ModelHeight * BytesPerPixel(d)

DefaultCfg == [speed |-> 0, mode |-> 0, no_cs |-> FALSE]
\* The settings each driver writes to its handle.
OwnCfg(dev) ==
  IF dev = "touch"
  THEN [speed |-> TOUCH_SPEED_HZ, mode |-> 0, no_cs |-> TRUE]
  ELSE [speed |-> DISPLAY_SPEED_HZ, mode |-> 0, no_cs |-> FALSE]

\* (command byte, data bytes, post-delay in ms) of _init_display.
Step(c, d, ms) == [cmd |-> c, data |-> d, delay |-> ms]
InitSeqLarge ==
  << Step(CMD_SWRESET, <<>>, 150), Step(CMD_SLPOUT, <<>>, 150),
     Step(CMD_COLMOD, <<102>>, 0), Step(CMD_MADCTL, <<232>>, 0),
     Step(CMD_NORON, <<>>, 10), Step(CMD_DISPON, <<>>, 10) >>
InitSeqSmall ==
  << Step(CMD_SWRESET, <<>>, 150), Step(CMD_SLPOUT, <<>>, 500),
     Step(203, <<57, 44, 0, 52, 2>>, 0), Step(207, <<0, 193, 48>>, 0),
     Step(232, <<133, 0, 120>>, 0), Step(234, <<0, 0>>, 0),
     Step(237, <<100, 3, 18, 129>>, 0), Step(247, <<32>>, 0),
     Step(192, <<35>>, 0), Step(193, <<16>>, 0),
     Step(197, <<62, 40>>, 0), Step(199, <<134>>, 0),
     Step(CMD_MADCTL, <<64>>, 0), Step(CMD_COLMOD, <<85>>, 0),
     Step(177, <<0, 24>>, 0), Step(182, <<8, 130, 39>>, 0),
     Step(242, <<0>>, 0), Step(38, <<1>>, 0),
     Step(224, <<15, 49, 43, 12, 14, 8, 78, 241, 55, 7, 16, 3, 14, 9, 0>>, 0),
     Step(225, <<0, 14, 20, 3, 17, 7, 49, 193, 72, 8, 15, 12, 49, 54, 15>>, 0),
     Step(CMD_NORON, <<>>, 10), Step(CMD_DISPON, <<>>, 100) >>
InitSeq(d) == IF d = "d1" THEN InitSeqLarge ELSE InitSeqSmall

(***************************************************************************)
(* State.                                                                  *)
(***************************************************************************)
VARIABLES
  demo_mode,           \* --demo
  HARDWARE_AVAILABLE,  \* spidev and RPi.GPIO could be imported
  pc,                  \* position of every thread
  todo,                \* per thread: lock sections left in this iteration
  exchange,            \* _read_touch: the exchange (X, Y, Z) in progress
  lockHolder,          \* per lock: the thread holding it, or NoThread
  spi,                 \* per device: self.spi ("None", "unopened", "open")
  spiCfg,              \* per spidev node: speed, mode and no_cs in effect
  running,             \* per loop thread: self.running
  initDev,             \* the display main() is initialising
  attempt,             \* loop variable of initialize()
  attemptsMade,        \* per display: attempts started by initialize()
  backoffs,            \* per display: the sleeps between attempts, in ms
  outcome,             \* per display: how initialize() ended
  ret,                 \* per display: value returned by initialize()
  rstLog,              \* reset line of the attempt in progress: <<level, ms>>
  cmdIdx,              \* commands of _init_display sent in this attempt
  lastOwner,           \* the device of the most recent bus transfer
  leaseDevs,           \* devices that transferred while the present holder
                       \* of spi_lock has held it
  off,                 \* per display: loop variable i of _data
  cs,                  \* level of the touch chip-select line
  was_touched,         \* TouchHandler.run local
  touch_started,       \* touch_start_time and touch_x are set
  winSent,             \* the window sequence sent under the present hold of
                       \* spi_lock, or NoWindow
  call,                \* the function applied last, on its own
  arg,                 \* its arguments
  out,                 \* what it computed
  now,                 \* time.time(), in ms
  last_touch_time,     \* TouchHandler.last_touch_time, in ms
  touch_start_time,    \* TouchHandler.touch_start_time, in ms, or None
  touch_x,             \* TouchHandler.run local, or None
  touch_y,             \* TouchHandler.run local, or None
  touches,             \* the touch being followed, or whose end the last
                       \* iteration saw: <<>> or one record
  events,              \* the callbacks invoked by the last iteration
  _initialized,        \* RotaryHandler._initialized
  _last_clk_state,     \* RotaryHandler._last_clk_state, or None
  _last_button_state,  \* RotaryHandler._last_button_state, or None
  rotary_ok,           \* value returned by RotaryHandler.initialize
  sampled,             \* clock and button levels read last, or None
  polled,              \* the last call of _poll_encoder: what it read, what
                       \* had been read before it, the callbacks it invoked
  caught,              \* per loop: how its last iteration ended
  slept,               \* per loop: argument of its last time.sleep, in ms
  calibration,         \* config.TOUCH, as the process loaded it
  touch_ok,            \* what TouchHandler.initialize returned
  lcd_ok,              \* what LCDTicker.initialize returned
  init_ok,             \* what DisplayCommandCenter.initialize returned
  _active_button_id,   \* DisplayCommandCenter._active_button_id, or "None"
  button_state,        \* per command button: its state on the panel
  status_text,         \* the status text shown last on display 1
  timers,              \* the threading.Timer objects started and not fired
  taps,                \* button taps so far; numbers the invocations
  activeInvocation     \* the invocation that set _active_button_id, or 0

\* Python's None where the model holds a number otherwise.
None == 0 - 1
\* The ids of the command buttons of the panel on display 2.
Buttons == {"b1", "b2"}
\* _poll_encoder has not been called.
NoPoll == [clk |-> None, dt |-> None, sw |-> None, prev_clk |-> None,
           prev_sw |-> None, events |-> <<>>]

cfgVars == <<demo_mode, HARDWARE_AVAILABLE>>
callVars == <<call, arg, out>>
initVars == <<initDev, attempt, attemptsMade, backoffs, outcome, ret,
              rstLog, cmdIdx>>
busVars == <<spi, spiCfg, lastOwner, leaseDevs, off, cs, winSent>>
touchVars == <<exchange, was_touched, touch_started>>
gestureVars == <<now, last_touch_time, touch_start_time, touch_x, touch_y,
                 touches, events>>
rotaryVars == <<_initialized, _last_clk_state, _last_button_state,
                rotary_ok, sampled, polled>>
loopVars == <<caught, slept>>
calibVars == <<calibration, touch_ok>>
startupVars == <<lcd_ok, init_ok>>
buttonVars == <<_active_button_id, button_state, status_text, timers, taps,
                activeInvocation>>
handlerVars ==
  <<gestureVars, rotaryVars, loopVars, calibVars, startupVars, buttonVars>>
vars == <<demo_mode, HARDWARE_AVAILABLE, pc, todo, lockHolder, spi, spiCfg,
          running, initDev, attempt, attemptsMade, backoffs, outcome, ret,
          rstLog, cmdIdx, lastOwner, leaseDevs, off, cs, exchange,
          was_touched, touch_started, winSent, call, arg, out,
          handlerVars>>

\* The coordinate pair with the low byte first.
WindowBytesLittleEndian(a, b) == <<a % 256, a \div 256, b % 256, b \div 256>>

\* _set_window: a coordinate pair as two 16-bit big-endian values,
\* [a >> 8, a & 0xFF, b >> 8, b & 0xFF].
WindowBytes(a, b) == <<a \div 256, a % 256, b \div 256, b % 256>>

\* The bytes of _set_window(x0, y0, x1, y1): CASET + 4, PASET + 4, RAMWR.
WindowSequence(x0, y0, x1, y1) ==
  [caset |-> <<CMD_CASET>> \o WindowBytes(x0, x1),
   paset |-> <<CMD_PASET>> \o WindowBytes(y0, y1),
   ramwr |-> <<CMD_RAMWR>>]

NoWindow == [dev |-> "none", seq |-> <<>>]

\* _display_image: the window of the whole panel.
FullWindow(d) == WindowSequence(0, 0, ModelWidth - 1, ModelHeight - 1)

\* A transfer of device dev goes over the bus.
Transferred(dev) ==
  /\ lastOwner' = dev
  /\ leaseDevs' = IF lockHolder["spi_lock"] = NoThread THEN leaseDevs
                  ELSE leaseDevs \cup {dev}

(***************************************************************************)
(* threading.Lock                                                          *)
(***************************************************************************)
\* A lock that excludes nobody.
CanAcquireAlways(t, l) == TRUE

\* Lock.acquire() returns only when the lock is free, whoever holds it.
CanAcquire(t, l) == lockHolder[l] = NoThread

Acquired(t, l) == [lockHolder EXCEPT ![l] = t]
Released(t, l) == [lockHolder EXCEPT ![l] = NoThread]

(***************************************************************************)
(* Initial state: the objects as constructed by DisplayCommandCenter().    *)
(***************************************************************************)
InitCommon ==
  /\ demo_mode \in BOOLEAN
  /\ HARDWARE_AVAILABLE \in BOOLEAN
  /\ todo = [t \in Threads |-> <<>>]
  /\ exchange = 0
  /\ lockHolder = [l \in Locks |-> NoThread]
  /\ running = [t \in BusThreads \cup AuxThreads |-> FALSE]
  /\ attempt = 0
  /\ rstLog = <<>>
  /\ cmdIdx = 0
  /\ leaseDevs = {}
  /\ off = [d \in Displays |-> 0]
  /\ was_touched = FALSE
  /\ touch_started = FALSE
  /\ winSent = NoWindow
  /\ call = "none"
  /\ arg = <<>>
  /\ out = <<>>
  /\ now = ClockOrigin
  /\ last_touch_time = 0
  /\ touch_start_time = None
  /\ touch_x = None
  /\ touch_y = None
  /\ touches = <<>>
  /\ events = <<>>
  /\ _initialized = FALSE
  /\ _last_clk_state = None
  /\ _last_button_state = None
  /\ rotary_ok = "none"
  /\ sampled = [clk |-> None, sw |-> None]
  /\ polled = NoPoll
  /\ caught = [t \in LoopThreads |-> "none"]
  /\ slept = [t \in LoopThreads |-> 0]
  /\ lcd_ok = "none"
  /\ init_ok = "none"
  /\ _active_button_id = "None"
  /\ button_state = [b \in Buttons |-> "normal"]
  /\ status_text = ""
  /\ timers = {}
  /\ taps = 0
  /\ activeInvocation = 0

\* The application before DisplayCommandCenter.initialize.
InitStart ==
  /\ InitCommon
  /\ touch_ok = "none"
  /\ pc = [t \in Threads |-> IF t = "main" THEN "entry" ELSE "unstarted"]
  /\ spi = [d \in Devices |-> "None"]
  /\ spiCfg = [n \in Nodes |-> DefaultCfg]
  /\ lastOwner = "none"
  /\ initDev = "d1"
  /\ attemptsMade = [d \in Displays |-> 0]
  /\ backoffs = [d \in Displays |-> <<>>]
  /\ outcome = [d \in Displays |-> "none"]
  /\ ret = [d \in Displays |-> "none"]
  /\ cs = "unset"

Init ==
  /\ InitStart
  /\ calibration = TOUCH

(***************************************************************************)
(* ConversationDisplay.initialize / StatusDisplay.initialize, run by the   *)
(* main thread.  Neither takes spi_lock.                                   *)
(***************************************************************************)
\* A return statement of initialize(): how it ended and what it returns.
PyBool(b) == IF b THEN "True" ELSE "False"

Return(d, how, value) ==
  /\ outcome' = [outcome EXCEPT ![d] = how]
  /\ ret' = [ret EXCEPT ![d] = PyBool(value)]
  /\ pc' = [pc EXCEPT !["main"] = "ret"]
  /\ UNCHANGED <<initDev, attempt, rstLog>>

\* The retry loop with `range(max_retries + 1)`.
AttemptFailedOffByOne(d) ==
  IF attempt = max_retries
  THEN /\ Return(d, "exhausted", demo_mode)
       /\ UNCHANGED cmdIdx
  ELSE /\ attempt' = attempt + 1
       /\ pc' = [pc EXCEPT !["main"] = "attempt"]
       /\ rstLog' = <<>>
       /\ cmdIdx' = 0
       /\ UNCHANGED <<initDev, outcome, ret>>

\* The except clause of the retry loop.
AttemptFailed(d) ==
  IF attempt = max_retries - 1
  THEN /\ Return(d, "exhausted", demo_mode)
       /\ UNCHANGED cmdIdx
  ELSE /\ attempt' = attempt + 1
       /\ pc' = [pc EXCEPT !["main"] = "attempt"]
       /\ rstLog' = <<>>
       /\ cmdIdx' = 0
       /\ UNCHANGED <<initDev, outcome, ret>>

InitializeEntry(d) ==
  /\ pc["main"] = "entry" /\ initDev = d
  /\ IF demo_mode /\ ~HARDWARE_AVAILABLE
     THEN /\ Return(d, "nohw", TRUE)
          /\ UNCHANGED cmdIdx
     ELSE IF ~HARDWARE_AVAILABLE
     THEN /\ Return(d, "nohw", FALSE)
          /\ UNCHANGED cmdIdx
     ELSE /\ pc' = [pc EXCEPT !["main"] = "attempt"]
          /\ attempt' = 0
          /\ UNCHANGED <<initDev, outcome, ret, rstLog, cmdIdx>>
  /\ UNCHANGED <<cfgVars, callVars, handlerVars, todo, lockHolder, running,
                 attemptsMade, backoffs, busVars, touchVars>>

\* time.sleep(ms): the time actually slept.
Slept(ms) == {ms + j : j \in 0..MaxJitter}

\* _restore_spi (display 1) and the two assignments of StatusDisplay.initialize.
ApplyDisplayCfg(d, cfg) ==
  IF d = "d1" THEN OwnCfg("d1")
  ELSE [cfg EXCEPT !.speed = DISPLAY_SPEED_HZ, !.mode = 0]

\* Top of one attempt: the backoff, GPIO.setup, SpiDev(), open, settings.
AttemptSetup(d) ==
  /\ pc["main"] = "attempt" /\ initDev = d
  /\ attemptsMade' = [attemptsMade EXCEPT ![d] = @ + 1]
  /\ IF attempt > 0
     THEN \E ms \in Slept(RETRY_BACKOFF_MS) :
            backoffs' = [backoffs EXCEPT ![d] = Append(@, ms)]
     ELSE UNCHANGED backoffs
  /\ \E res \in {"ok", "gpio_error", "open_error"} :
       \/ /\ res = "ok"
          /\ spi' = [spi EXCEPT ![d] = "open"]
          /\ spiCfg' = [spiCfg EXCEPT ![Node(d)] = ApplyDisplayCfg(d, @)]
          /\ pc' = [pc EXCEPT !["main"] = "reset"]
          /\ UNCHANGED <<initDev, attempt, outcome, ret, rstLog, cmdIdx>>
       \/ /\ res = "gpio_error"
          /\ UNCHANGED <<spi, spiCfg>>
          /\ AttemptFailed(d)
       \/ /\ res = "open_error"
          /\ spi' = [spi EXCEPT ![d] = "unopened"]
          /\ UNCHANGED spiCfg
          /\ AttemptFailed(d)
  /\ UNCHANGED <<cfgVars, callVars, handlerVars, todo, lockHolder, running,
                 lastOwner, leaseDevs, off, cs, winSent, touchVars>>

\* A reset whose last sleep is as short as the first two.
ResetLevelsShortSettle ==
  << <<"HIGH", RESET_HIGH_MS>>, <<"LOW", RESET_LOW_MS>>,
     <<"HIGH", RESET_LOW_MS>> >>

\* _reset: the three levels of the reset line, each followed by its sleep.
ResetLevels ==
  << <<"HIGH", RESET_HIGH_MS>>, <<"LOW", RESET_LOW_MS>>,
     <<"HIGH", RESET_SETTLE_MS>> >>

_reset(d) ==
  /\ pc["main"] = "reset" /\ initDev = d
  /\ Len(rstLog) < Len(ResetLevels)
  /\ LET lvl == ResetLevels[Len(rstLog) + 1]
     IN \E ms \in Slept(lvl[2]) :
          rstLog' = Append(rstLog, <<lvl[1], ms>>)
  /\ pc' = [pc EXCEPT !["main"] =
              IF Len(rstLog') = Len(ResetLevels) THEN "cmds" ELSE "reset"]
  /\ UNCHANGED <<cfgVars, callVars, handlerVars, todo, lockHolder, running,
                 initDev, attempt, attemptsMade, backoffs, outcome, ret,
                 cmdIdx, busVars, touchVars>>

\* _init_display, one (command, data, delay) step at a time; a transfer
\* may raise.  After the last step initialize() returns True.
_init_display(d) ==
  /\ pc["main"] = "cmds" /\ initDev = d
  /\ \E ok \in BOOLEAN :
       IF ~ok
       THEN /\ AttemptFailed(d)
            /\ UNCHANGED <<lastOwner, leaseDevs>>
       ELSE /\ Transferred(d)
            /\ IF cmdIdx + 1 = Len(InitSeq(d))
               THEN /\ Return(d, "completed", TRUE)
                    /\ cmdIdx' = cmdIdx + 1
               ELSE /\ cmdIdx' = cmdIdx + 1
                    /\ UNCHANGED <<pc, initDev, attempt, outcome, ret, rstLog>>
  /\ UNCHANGED <<cfgVars, callVars, handlerVars, todo, lockHolder, running,
                 attemptsMade, backoffs, spi, spiCfg, off, cs, winSent,
                 touchVars>>

\* DisplayCommandCenter.initialize after a display's initialize() returned:
\* display 1, then display 2, then the check of both results, then the
\* touch controller.  The locals of the finished call are gone.
InitializeReturned(d) ==
  /\ pc["main"] = "ret" /\ initDev = d
  /\ attempt' = 0
  /\ rstLog' = <<>>
  /\ cmdIdx' = 0
  /\ attemptsMade' = [attemptsMade EXCEPT ![d] = 0]
  /\ backoffs' = [backoffs EXCEPT ![d] = <<>>]
  /\ IF d = "d1"
     THEN /\ initDev' = "d2"
          /\ pc' = [pc EXCEPT !["main"] = "entry"]
     ELSE /\ initDev' = "none"
          /\ pc' = [pc EXCEPT !["main"] =
                      IF ret["d1"] = "False" /\ ret["d2"] = "False"
                         /\ ~demo_mode
                      THEN "exit" ELSE "touch_init"]
  /\ UNCHANGED <<cfgVars, callVars, handlerVars, todo, lockHolder, running,
                 outcome, ret, busVars, touchVars>>

\* TouchHandler.initialize.
TouchInitialize ==
  /\ pc["main"] = "touch_init"
  /\ pc' = [pc EXCEPT !["main"] = "start"]
  /\ IF demo_mode \/ ~HARDWARE_AVAILABLE
     THEN /\ touch_ok' = PyBool(demo_mode)
          /\ UNCHANGED <<spi, spiCfg, cs>>
     ELSE \E res \in {"ok", "gpio_error", "open_error"} :
            /\ touch_ok' = PyBool(res = "ok")
            /\ \/ /\ res = "ok"
                  /\ cs' = "HIGH"
                  /\ spi' = [spi EXCEPT !["touch"] = "open"]
                  /\ spiCfg' = [spiCfg EXCEPT ![Node("touch")] =
                                 OwnCfg("touch")]
               \/ /\ res = "gpio_error"
                  /\ UNCHANGED <<spi, spiCfg, cs>>
               \/ /\ res = "open_error"
                  /\ cs' = "HIGH"
                  /\ spi' = [spi EXCEPT !["touch"] = "unopened"]
                  /\ UNCHANGED spiCfg
  /\ UNCHANGED <<cfgVars, callVars, gestureVars, rotaryVars, loopVars,
                 calibration, startupVars, buttonVars, todo, lockHolder,
                 running,
                 initVars, lastOwner, leaseDevs, off, winSent, touchVars>>

\* DisplayCommandCenter.run: the threads are started, main waits.
StartThreads ==
  /\ pc["main"] = "start"
  /\ pc' = [t \in Threads |-> IF t = "main" THEN "wait" ELSE "entry"]
  /\ UNCHANGED <<cfgVars, callVars, handlerVars, todo, lockHolder, running,
                 initVars, busVars, touchVars>>

(***************************************************************************)
(* The loops.  run() sets self.running and tests it before every           *)
(* iteration; stop() clears it.                                            *)
(***************************************************************************)
RunEntry(t) ==
  /\ pc[t] = "entry"
  /\ running' = [running EXCEPT ![t] = TRUE]
  /\ pc' = [pc EXCEPT ![t] = "loop"]
  /\ UNCHANGED <<cfgVars, callVars, handlerVars, todo, lockHolder, initVars,
                 busVars, touchVars>>

\* DisplayCommandCenter.stop, from the signal handler.
Stop ==
  /\ pc["main"] = "wait"
  /\ running' = [t \in DOMAIN running |-> FALSE]
  /\ pc' = [pc EXCEPT !["main"] = "stopped"]
  /\ UNCHANGED <<cfgVars, callVars, handlerVars, todo, lockHolder, initVars,
                 busVars, touchVars>>

\* `while self.running:` of ConversationDisplay.run / StatusDisplay.run,
\* and the drawing of the image up to `if self.spi:`.
RenderLoop(d) ==
  /\ pc[d] = "loop"
  /\ pc' = [pc EXCEPT ![d] = IF running[d] THEN "frame" ELSE "exit"]
  /\ UNCHANGED <<cfgVars, callVars, handlerVars, todo, lockHolder, running,
                 initVars, busVars, touchVars>>

(***************************************************************************)
(* The frame write of render(): `if self.spi: with spi_lock: ...`.         *)
(***************************************************************************)
\* An exit that forgets the lock.
LeaseKept(t) == lockHolder
LeaseKeptOnError(t) == lockHolder

\* Leaving a `with spi_lock:` block normally.
LeaseExit(t) == Released(t, "spi_lock")
\* Leaving a `with spi_lock:` block by an exception.
LeaseExitOnError(t) == Released(t, "spi_lock")

RenderAcquire(d) ==
  /\ pc[d] = "frame"
  /\ IF spi[d] = "None"
     THEN /\ pc' = [pc EXCEPT ![d] = "loop"]
          /\ UNCHANGED lockHolder
     ELSE /\ CanAcquire(d, "spi_lock")
          /\ lockHolder' = Acquired(d, "spi_lock")
          /\ pc' = [pc EXCEPT ![d] = IF d = "d1" THEN "restore" ELSE "window"]
  /\ UNCHANGED <<cfgVars, callVars, handlerVars, todo, running, initVars,
                 busVars, touchVars>>

\* An exception inside the with block: the lease is left, the loop's
\* `except Exception` sleeps 1 s and the next iteration follows.
RenderRaise(d) ==
  /\ lockHolder' = LeaseExitOnError(d)
  /\ leaseDevs' = {}
  /\ winSent' = NoWindow
  /\ pc' = [pc EXCEPT ![d] = "loop"]

\* ConversationDisplay._restore_spi; setting an attribute of a handle that
\* was never opened raises.
_restore_spi ==
  /\ pc["d1"] = "restore"
  /\ IF spi["d1"] = "open"
     THEN /\ spiCfg' = [spiCfg EXCEPT ![Node("d1")] = OwnCfg("d1")]
          /\ pc' = [pc EXCEPT !["d1"] = "window"]
          /\ UNCHANGED <<lockHolder, leaseDevs, winSent>>
     ELSE /\ RenderRaise("d1")
          /\ UNCHANGED spiCfg
  /\ UNCHANGED <<cfgVars, callVars, handlerVars, todo, running, initVars, spi,
                 lastOwner, off, cs, touchVars>>

\* A _set_window that trusts the window it sent last time: nothing is sent
\* when this display was the last to use the bus.
_set_window_cached(d) ==
  /\ pc[d] = "window"
  /\ \E ok \in (IF spi[d] = "open" THEN BOOLEAN ELSE {FALSE}) :
       IF ok THEN /\ IF lastOwner = d
                     THEN UNCHANGED <<lastOwner, leaseDevs, winSent>>
                     ELSE /\ Transferred(d)
                          /\ winSent' = [dev |-> d, seq |-> FullWindow(d)]
                  /\ pc' = [pc EXCEPT ![d] = "data"]
                  /\ off' = [off EXCEPT ![d] = 0]
                  /\ UNCHANGED lockHolder
       ELSE /\ RenderRaise(d)
            /\ UNCHANGED <<lastOwner, off>>
  /\ UNCHANGED <<cfgVars, callVars, handlerVars, todo, running, initVars, spi,
                 spiCfg, cs, touchVars>>

\* _set_window: CASET + 4 bytes, PASET + 4 bytes, RAMWR.
_set_window(d) ==
  /\ pc[d] = "window"
  /\ \E ok \in (IF spi[d] = "open" THEN BOOLEAN ELSE {FALSE}) :
       IF ok THEN /\ Transferred(d)
                  /\ winSent' = [dev |-> d, seq |-> FullWindow(d)]
                  /\ pc' = [pc EXCEPT ![d] = "data"]
                  /\ off' = [off EXCEPT ![d] = 0]
                  /\ UNCHANGED lockHolder
       ELSE /\ RenderRaise(d)
            /\ UNCHANGED <<lastOwner, off>>
  /\ UNCHANGED <<cfgVars, callVars, handlerVars, todo, running, initVars, spi,
                 spiCfg, cs, touchVars>>

\* _data taking the lock per chunk instead of per frame: the lock is free
\* between two chunks.
_data_lease_per_chunk(d) ==
  /\ pc[d] = "data"
  /\ \E ok \in BOOLEAN :
       IF ok THEN /\ Transferred(d)
                  /\ off' = [off EXCEPT ![d] = @ + MAX_XFER]
                  /\ pc' = [pc EXCEPT ![d] =
                              IF off[d] + MAX_XFER < FrameLen(d)
                              THEN "data" ELSE "written"]
                  /\ lockHolder' = Released(d, "spi_lock")
                  /\ UNCHANGED winSent
       ELSE /\ RenderRaise(d)
            /\ UNCHANGED <<lastOwner, off>>
  /\ UNCHANGED <<cfgVars, callVars, handlerVars, todo, running, initVars, spi,
                 spiCfg, cs, touchVars>>

\* _data giving up between two chunks once stop() has been called: the
\* lock is released and the loop is left.
_data_until_stopped(d) ==
  /\ pc[d] = "data"
  /\ \E ok \in BOOLEAN :
       IF ~running[d]
       THEN /\ lockHolder' = Released(d, "spi_lock")
            /\ leaseDevs' = {}
            /\ winSent' = NoWindow
            /\ pc' = [pc EXCEPT ![d] = "exit"]
            /\ UNCHANGED <<lastOwner, off>>
       ELSE IF ok
       THEN /\ Transferred(d)
            /\ off' = [off EXCEPT ![d] = @ + MAX_XFER]
            /\ pc' = [pc EXCEPT ![d] =
                        IF off[d] + MAX_XFER < FrameLen(d)
                        THEN "data" ELSE "written"]
            /\ UNCHANGED <<lockHolder, winSent>>
       ELSE /\ RenderRaise(d)
            /\ UNCHANGED <<lastOwner, off>>
  /\ UNCHANGED <<cfgVars, callVars, handlerVars, todo, running, initVars,
                 spi, spiCfg, cs, touchVars>>

\* _data on the pixel payload: `for i in range(0, len(data), 4096)`, one
\* transfer per step.
_data(d) ==
  /\ pc[d] = "data"
  /\ \E ok \in BOOLEAN :
       IF ok THEN /\ Transferred(d)
                  /\ off' = [off EXCEPT ![d] = @ + MAX_XFER]
                  /\ pc' = [pc EXCEPT ![d] =
                              IF off[d] + MAX_XFER < FrameLen(d)
                              THEN "data" ELSE "written"]
                  /\ UNCHANGED <<lockHolder, winSent>>
       ELSE /\ RenderRaise(d)
            /\ UNCHANGED <<lastOwner, off>>
  /\ UNCHANGED <<cfgVars, callVars, handlerVars, todo, running, initVars, spi,
                 spiCfg, cs, touchVars>>

\* The frame is out: the with block ends.
RenderRelease(d) ==
  /\ pc[d] = "written"
  /\ lockHolder' = LeaseExit(d)
  /\ leaseDevs' = {}
  /\ winSent' = NoWindow
  /\ off' = [off EXCEPT ![d] = 0]
  /\ pc' = [pc EXCEPT ![d] = "loop"]
  /\ UNCHANGED <<cfgVars, callVars, handlerVars, todo, running, initVars, spi,
                 spiCfg, lastOwner, cs, touchVars>>

(***************************************************************************)
(* TouchHandler.run and _read_touch.                                       *)
(***************************************************************************)
\* The three exchanges of one poll: X, Y, Z.
TouchCommands == <<208, 144, 176>>

\* `while self.running:`; in demo mode the iteration only sleeps.
TouchLoop ==
  /\ pc["touch"] = "loop"
  /\ pc' = [pc EXCEPT !["touch"] =
              IF ~running["touch"] THEN "exit"
              ELSE IF demo_mode THEN "loop"
              ELSE "read"]
  /\ UNCHANGED <<cfgVars, callVars, handlerVars, todo, lockHolder, running,
                 initVars, busVars, touchVars>>

\* `if not self.spi: return`; else `with spi_lock:` and chip select low.
TouchAcquire ==
  /\ pc["touch"] = "read"
  /\ IF spi["touch"] = "None"
     THEN /\ pc' = [pc EXCEPT !["touch"] = "no_sample"]
          /\ UNCHANGED <<lockHolder, cs, exchange>>
     ELSE /\ CanAcquire("touch", "spi_lock")
          /\ lockHolder' = Acquired("touch", "spi_lock")
          /\ cs' = "LOW"
          /\ exchange' = 1
          /\ pc' = [pc EXCEPT !["touch"] = "xfer"]
  /\ UNCHANGED <<cfgVars, callVars, handlerVars, todo, running, initVars, spi,
                 spiCfg, lastOwner, leaseDevs, off, winSent, was_touched,
                 touch_started>>

\* One xfer2 of the poll.  An exception leaves the with block at once and
\* _read_touch returns "not touched".
TouchXfer ==
  /\ pc["touch"] = "xfer"
  /\ \E ok \in (IF spi["touch"] = "open" THEN BOOLEAN ELSE {FALSE}) :
       IF ok
       THEN /\ Transferred("touch")
            /\ exchange' = exchange + 1
            /\ pc' = [pc EXCEPT !["touch"] =
                        IF exchange < Len(TouchCommands)
                        THEN "xfer" ELSE "deselect"]
            /\ UNCHANGED lockHolder
       ELSE /\ lockHolder' = LeaseExitOnError("touch")
            /\ leaseDevs' = {}
            /\ pc' = [pc EXCEPT !["touch"] = "no_sample"]
            /\ exchange' = 0
            /\ UNCHANGED lastOwner
  /\ UNCHANGED <<cfgVars, callVars, handlerVars, todo, running, initVars, spi,
                 spiCfg, off, cs, winSent, was_touched, touch_started>>

\* Chip select high, and the with block ends.
TouchRelease ==
  /\ pc["touch"] = "deselect"
  /\ cs' = "HIGH"
  /\ lockHolder' = LeaseExit("touch")
  /\ leaseDevs' = {}
  /\ exchange' = 0
  /\ pc' = [pc EXCEPT !["touch"] = "sample"]
  /\ UNCHANGED <<cfgVars, callVars, handlerVars, todo, running, initVars, spi,
                 spiCfg, lastOwner, off, winSent, was_touched, touch_started>>

\* The rest of the iteration: transition detection on the sample.  A touch
\* start is accepted outside the debounce window; at the end of an accepted
\* touch _handle_touch calls the gesture callback, and when that raises the
\* loop's except clause skips the rest of the iteration.
TouchSample ==
  /\ pc["touch"] \in {"sample", "no_sample"}
  /\ \E is_touching \in (IF pc["touch"] = "sample" THEN BOOLEAN ELSE {FALSE}),
        debounced \in BOOLEAN, raised \in BOOLEAN :
       IF is_touching /\ ~was_touched /\ debounced
       THEN /\ touch_started' = TRUE
            /\ was_touched' = is_touching
       ELSE IF ~is_touching /\ was_touched
       THEN IF touch_started /\ raised
            THEN UNCHANGED <<was_touched, touch_started>>
            ELSE /\ touch_started' = FALSE
                 /\ was_touched' = is_touching
       ELSE /\ was_touched' = is_touching
            /\ UNCHANGED touch_started
  /\ pc' = [pc EXCEPT !["touch"] = "loop"]
  /\ UNCHANGED <<cfgVars, callVars, handlerVars, todo, lockHolder, running,
                 initVars, busVars, exchange>>

NextInit ==
  \/ \E d \in Displays :
       \/ InitializeEntry(d)
       \/ AttemptSetup(d)
       \/ _reset(d)
       \/ _init_display(d)
       \/ InitializeReturned(d)
  \/ TouchInitialize
  \/ StartThreads

SpecInit == Init /\ [][NextInit]_vars

\* What DisplayCommandCenter.initialize leaves behind when it returns True
\* on real hardware: at least one display completed; a display that failed
\* may have left a handle, opened or not, and settings on its node; the
\* touch controller, set up last, owns the settings of spidev0.0.
AfterInitialize ==
  /\ outcome \in [Displays -> {"completed", "exhausted"}]
  /\ ret = [d \in Displays |-> PyBool(outcome[d] = "completed")]
  /\ \E d \in Displays : ret[d] = "True"
  /\ spi \in [Devices -> {"None", "unopened", "open"}]
  /\ \A d \in Displays : outcome[d] = "completed" => spi[d] = "open"
  /\ spiCfg \in [Nodes -> {DefaultCfg, OwnCfg("d1"), OwnCfg("touch")}]
  /\ spiCfg["spidev0.1"] \in
       CASE spi["d2"] = "open" -> {OwnCfg("d2")}
         [] spi["d2"] = "unopened" -> {DefaultCfg, OwnCfg("d2")}
         [] OTHER -> {DefaultCfg}
  /\ spiCfg["spidev0.0"] \in
       CASE spi["touch"] = "open" -> {OwnCfg("touch")}
         [] spi["d1"] = "open" -> {OwnCfg("d1")}
         [] spi["d1"] = "unopened" -> {DefaultCfg, OwnCfg("d1")}
         [] OTHER -> {DefaultCfg}
  /\ cs = IF spi["touch"] = "None" THEN "unset" ELSE "HIGH"
  /\ lastOwner \in IF outcome["d2"] = "completed" THEN {"d2"}
                    ELSE {"d1"} \cup {d \in {"d2"} : spi[d] # "None"}

\* The state in which DisplayCommandCenter.run has started the threads.
InitRun ==
  /\ InitCommon
  /\ calibration = TOUCH
  /\ HARDWARE_AVAILABLE
  /\ ~demo_mode
  /\ pc = [t \in Threads |-> IF t = "main" THEN "wait"
                             ELSE IF t \in BusThreads THEN "entry"
                             ELSE "unstarted"]
  /\ initDev = "none"
  /\ attemptsMade = [d \in Displays |-> 0]
  /\ backoffs = [d \in Displays |-> <<>>]
  /\ AfterInitialize
  /\ touch_ok = PyBool(spi["touch"] = "open")

NextRun ==
  \/ \E d \in Displays :
       \/ RunEntry(d)
       \/ RenderLoop(d)
       \/ RenderAcquire(d)
       \/ _set_window(d)
       \/ _data(d)
       \/ RenderRelease(d)
  \/ _restore_spi
  \/ RunEntry("touch")
  \/ TouchLoop
  \/ TouchAcquire
  \/ TouchXfer
  \/ TouchRelease
  \/ TouchSample
  \/ Stop

Spec == InitRun /\ [][NextRun]_vars

(***************************************************************************)
(* The locks of the running application.  One iteration of a thread is a    *)
(* sequence of `with` blocks; a block names the lock it takes and the lock  *)
(* taken inside it, if any.                                                 *)
(***************************************************************************)
\* Messages one call of get_messages_func hands to the render loop.
MaxNewMessages == 1

NoLock == "none"
Section(l) == [lock |-> l, inner |-> NoLock]
Nested(l, m) == [lock |-> l, inner |-> m]

\* A setter of display 1 that calls back into the scroll handling.
StateSectionScrolling == Nested("display1.lock", "scroll_lock")

\* ConversationDisplay's setters and getters: `with self.lock:`.
StateSection == Section("display1.lock")
\* `with spi_lock:` of render() and of _read_touch().
BusSection == Section("spi_lock")
\* The rotary callbacks: `with self._scroll_lock:` around set_scroll_offset.
ScrollSection == Nested("scroll_lock", "display1.lock")
\* LCDTicker's methods: `with self.lock:`.
LcdSection == Section("lcd.lock")

\* n blocks on display1.lock in a row.
RECURSIVE Repeat(_, _)
Repeat(sect, n) == IF n = 0 THEN <<>> ELSE <<sect>> \o Repeat(sect, n - 1)

LockThreads == BusThreads \cup AuxThreads

\* The with blocks of one iteration of thread t, in program order.
Paths(t) ==
  CASE t = "d1" ->
         \* add_message per new message, the streaming update, render()
         \* (_draw_molty_panel, the status text, the frame), is_streaming.
         { Repeat(StateSection, m) \o Repeat(StateSection, 3)
             \o (IF spi["d1"] = "None" THEN <<>> ELSE <<BusSection>>)
             \o <<StateSection>> : m \in 0..MaxNewMessages }
    [] t = "d2" ->
         \* update_status, add_notification, render() (status, the frame).
         { u \o n \o <<Section("display2.lock")>>
             \o (IF spi["d2"] = "None" THEN <<>> ELSE <<BusSection>>) :
           u \in {<<>>, <<Section("display2.lock")>>},
           n \in {<<>>, <<Section("notification_lock")>>} }
    [] t = "touch" ->
         \* _read_touch, then on_tap / on_long_press when a touch ended.
         { (IF spi["touch"] = "None" THEN <<>> ELSE <<BusSection>>)
             \o Repeat(StateSection, n) : n \in {0, 2, 3} }
    [] t = "rotary" ->
         \* _poll_encoder: a rotation callback, then the button callback.
         { r \o b : r \in {<<>>, <<ScrollSection>>},
                    b \in {<<>>, <<LcdSection, ScrollSection>>} }
    [] t = "lcd" ->
         \* LCDTicker.run: the scroll position, then _update_display.
         { <<>>, <<LcdSection>>, <<LcdSection, LcdSection>> }
    [] t = "lcdsync" ->
         \* _run_lcd: set_state, then set_detail when the feed has entries.
         { <<LcdSection>>, <<LcdSection, LcdSection>> }
    [] t = "timer" ->
         \* return_to_idle, command_timeout and the bridge callbacks.
         { Repeat(StateSection, n) : n \in 1..3 }

InitLocks ==
  /\ InitCommon
  /\ calibration = TOUCH
  /\ touch_ok = "True"
  /\ HARDWARE_AVAILABLE
  /\ ~demo_mode
  /\ pc = [t \in Threads |-> IF t = "main" THEN "wait" ELSE "loop"]
  /\ initDev = "none"
  /\ attemptsMade = [d \in Displays |-> 0]
  /\ backoffs = [d \in Displays |-> <<>>]
  /\ outcome = [d \in Displays |-> "completed"]
  /\ ret = [d \in Displays |-> "True"]
  /\ spi = [d \in Devices |-> "open"]
  /\ spiCfg = [n \in Nodes |->
                 IF n = "spidev0.1" THEN OwnCfg("d2") ELSE OwnCfg("touch")]
  /\ cs = "HIGH"
  /\ lastOwner = "d2"

\* Top of the loop: what this iteration is going to do.
LkLoop(t) ==
  /\ pc[t] = "loop"
  /\ \E p \in Paths(t) :
       /\ todo' = [todo EXCEPT ![t] = p]
       /\ pc' = [pc EXCEPT ![t] = IF p = <<>> THEN "loop" ELSE "acquire"]
  /\ UNCHANGED <<cfgVars, callVars, handlerVars, lockHolder, running,
                 initVars, busVars, touchVars>>

\* `with lock:` blocks until the lock is free.
LkEnter(t) ==
  /\ pc[t] = "acquire"
  /\ CanAcquire(t, Head(todo[t]).lock)
  /\ lockHolder' = Acquired(t, Head(todo[t]).lock)
  /\ pc' = [pc EXCEPT ![t] = IF Head(todo[t]).inner = NoLock
                             THEN "held" ELSE "acquire_inner"]
  /\ UNCHANGED <<cfgVars, callVars, handlerVars, todo, running, initVars,
                 busVars, touchVars>>

LkInnerEnter(t) ==
  /\ pc[t] = "acquire_inner"
  /\ CanAcquire(t, Head(todo[t]).inner)
  /\ lockHolder' = Acquired(t, Head(todo[t]).inner)
  /\ pc' = [pc EXCEPT ![t] = "nested"]
  /\ UNCHANGED <<cfgVars, callVars, handlerVars, todo, running, initVars,
                 busVars, touchVars>>

LkInnerLeave(t) ==
  /\ pc[t] = "nested"
  /\ lockHolder' = Released(t, Head(todo[t]).inner)
  /\ pc' = [pc EXCEPT ![t] = "held"]
  /\ UNCHANGED <<cfgVars, callVars, handlerVars, todo, running, initVars,
                 busVars, touchVars>>

\* End of the with block.
LkLeave(t) ==
  /\ pc[t] = "held"
  /\ lockHolder' = Released(t, Head(todo[t]).lock)
  /\ todo' = [todo EXCEPT ![t] = Tail(@)]
  /\ pc' = [pc EXCEPT ![t] = IF Tail(todo[t]) = <<>> THEN "loop" ELSE "acquire"]
  /\ UNCHANGED <<cfgVars, callVars, handlerVars, running, initVars, busVars,
                 touchVars>>

\* A transfer raises inside `with spi_lock:`.  A render loop abandons the
\* iteration; _read_touch returns "not touched" and the poll goes on.
LkRaise(t) ==
  /\ pc[t] = "held"
  /\ Head(todo[t]).lock = "spi_lock"
  /\ lockHolder' = LeaseExitOnError(t)
  /\ todo' = [todo EXCEPT ![t] = IF t = "touch" THEN Tail(@) ELSE <<>>]
  /\ pc' = [pc EXCEPT ![t] = IF todo'[t] = <<>> THEN "loop" ELSE "acquire"]
  /\ UNCHANGED <<cfgVars, callVars, handlerVars, running, initVars, busVars,
                 touchVars>>

NextLocks ==
  \E t \in LockThreads :
    \/ LkLoop(t)
    \/ LkEnter(t)
    \/ LkInnerEnter(t)
    \/ LkInnerLeave(t)
    \/ LkLeave(t)
    \/ LkRaise(t)

SpecLocks == InitLocks /\ [][NextLocks]_vars

(***************************************************************************)
(* Properties.                                                             *)
(***************************************************************************)
\* Thread t is inside a `with spi_lock:` block of render() or _read_touch().
InTransaction(t) ==
  pc[t] \in {"restore", "window", "data", "written", "xfer", "deselect"}

\* The next statement of thread t puts bytes on the bus: _command and _data
\* of _init_display in initialize(), _set_window and _data in render(),
\* xfer2 in _read_touch().
AtBusAccess(t) ==
  IF t = "main" THEN pc[t] = "cmds"
  ELSE pc[t] \in {"window", "data", "xfer"} /\ spi[t] = "open"

\* Thread t is at `with spi_lock:`, about to acquire.
AtAcquire(t) == pc[t] \in {"frame", "read"} /\ spi[t] # "None"

\* C1: with the two render loops and the touch poll running concurrently,
\* at most one of them is inside a bus transaction, and the transfers made
\* under one hold of spi_lock are all of the holder's device.
MutualExclusion ==
  /\ Cardinality({t \in BusThreads : InTransaction(t)}) <= 1
  /\ \A t \in BusThreads : InTransaction(t) => lockHolder["spi_lock"] = t
  /\ lockHolder["spi_lock"] = NoThread => leaseDevs = {}
  /\ lockHolder["spi_lock"] # NoThread
       => leaseDevs \subseteq {lockHolder["spi_lock"]}

\* Display 1 is in the middle of a frame while display 2 and the touch poll
\* both wait for the lock.
MutualExclusionWitness ==
  /\ pc["d1"] = "data" /\ off["d1"] > 0
  /\ pc["d2"] = "frame" /\ spi["d2"] = "open"
  /\ pc["touch"] = "read" /\ spi["touch"] = "open"

\* C2: a frame write is one lease: from the window commands to the last
\* pixel chunk the display holds spi_lock, no other device transfers, and
\* the display's bus settings stay in effect.
FrameIsOneLease ==
  \A d \in Displays :
    pc[d] \in {"data", "written"} =>
      /\ lockHolder["spi_lock"] = d
      /\ leaseDevs = {d}
      /\ lastOwner = d
      /\ spiCfg[Node(d)] = OwnCfg(d)

\* Display 1 has sent a frame of more than one chunk while the touch poll
\* and display 2 were waiting.
FrameIsOneLeaseWitness ==
  /\ pc["d1"] = "written"
  /\ off["d1"] >= FrameLen("d1") /\ off["d1"] > MAX_XFER
  /\ AtAcquire("touch") /\ AtAcquire("d2")

\* C3: every bus transaction of every driver, the reset and initialisation
\* sequence of a display included, is issued by a thread holding spi_lock.
EveryBusAccessUnderLease ==
  \A t \in {"main"} \cup BusThreads :
    AtBusAccess(t) => lockHolder["spi_lock"] = t

\* C4: when a different device transferred last, the device's own settings
\* (speed, mode, chip-select mode) are in effect on its spidev node at the
\* first byte of its transaction.
SettingsRestoredBeforeTransfer ==
  \A t \in BusThreads :
    (AtBusAccess(t) /\ lastOwner \notin {"none", t})
      => spiCfg[Node(t)] = OwnCfg(t)

\* C5: spi_lock is held only by a thread inside its frame write or touch
\* read: after an I/O error, as after a normal exit, the lock is free.
LeaseReleasedOnExit ==
  /\ lockHolder["spi_lock"] \in BusThreads \cup {NoThread}
  /\ \A t \in BusThreads : lockHolder["spi_lock"] = t => InTransaction(t)
  /\ (\A t \in BusThreads : ~InTransaction(t))
       => lockHolder["spi_lock"] = NoThread

\* A frame write of display 1 failed after its first chunk and a touch read
\* failed (chip select still low); display 2 has acquired the lock since.
LeaseReleasedOnExitWitness ==
  /\ pc["d1"] = "loop" /\ off["d1"] = MAX_XFER
  /\ pc["touch"] = "no_sample" /\ cs = "LOW"
  /\ lockHolder["spi_lock"] = "d2" /\ pc["d2"] = "data"

\* C6 as stated: a thread that holds spi_lock can acquire it again without
\* blocking.
ReentrantAcquisitionSucceeds ==
  \A t \in BusThreads :
    lockHolder["spi_lock"] = t => CanAcquire(t, "spi_lock")

\* C6, amended: spi_lock is not re-entrant, and no operation acquires it
\* while holding it: the holder is never at a `with spi_lock:`.
NoReentrantAcquisition ==
  \A t \in BusThreads :
    lockHolder["spi_lock"] = t
      => /\ ~CanAcquire(t, "spi_lock")
         /\ pc[t] \notin {"frame", "read"}

\* The touch poll holds the lock in the middle of a read while display 1,
\* whose previous frame went out, is back at `with spi_lock:`.
NoReentrantAcquisitionWitness ==
  /\ lockHolder["spi_lock"] = "touch" /\ exchange = 2
  /\ AtAcquire("d1") /\ lastOwner = "touch" /\ spiCfg[Node("d1")] = OwnCfg("d1")

\* C9: a display whose initialize() failed all attempts never acquires
\* spi_lock and never transfers.
ErroredIsTerminal ==
  \A d \in Displays :
    outcome[d] = "exhausted"
      => /\ lockHolder["spi_lock"] # d
         /\ ~InTransaction(d)

(***************************************************************************)
(* Properties of initialisation.                                           *)
(***************************************************************************)
Max(a, b) == IF a > b THEN a ELSE b

\* Attempts and backoffs of display d so far: at most 3 attempts, one sleep
\* of at least 0.5 s before every attempt but the first.
AttemptsBounded(d) ==
  /\ attemptsMade[d] <= 3
  /\ Len(backoffs[d]) = Max(attemptsMade[d] - 1, 0)
  /\ \A i \in DOMAIN backoffs[d] : backoffs[d][i] >= 500

\* C8 as stated: at most 3 attempts with a 0.5 s backoff before the 2nd and
\* 3rd; success is reported exactly when an attempt completes, failure
\* exactly when all 3 attempts fail.
BoundedRetryAsStated ==
  /\ \A d \in Displays : AttemptsBounded(d)
  /\ pc["main"] = "ret" =>
       /\ ret[initDev] = "True" <=> outcome[initDev] = "completed"
       /\ ret[initDev] = "False" <=>
            (outcome[initDev] = "exhausted" /\ attemptsMade[initDev] = 3)

\* C8, amended: at most 3 attempts with a 0.5 s backoff before the 2nd and
\* 3rd; an attempt that completes reset and init ends initialize() with
\* True; False is returned exactly when not in demo mode and either all 3
\* attempts failed or the hardware libraries are missing (no attempt is
\* made); in demo mode True is returned in these two cases as well.
BoundedRetry ==
  /\ \A d \in Displays : AttemptsBounded(d)
  /\ pc["main"] = "ret" =>
       /\ outcome[initDev] \in {"completed", "exhausted", "nohw"}
       /\ outcome[initDev] = "completed" =>
            /\ attemptsMade[initDev] = attempt + 1
            /\ Len(rstLog) = 3
            /\ cmdIdx = Len(InitSeq(initDev))
       /\ outcome[initDev] = "exhausted" =>
            /\ attemptsMade[initDev] = 3
            /\ cmdIdx < Len(InitSeq(initDev))
       /\ outcome[initDev] = "nohw" =>
            /\ attemptsMade[initDev] = 0
            /\ ~HARDWARE_AVAILABLE
       /\ ret[initDev] = "True" <=>
            (outcome[initDev] = "completed" \/ demo_mode)
       /\ ret[initDev] = "False" <=>
            (~demo_mode /\ outcome[initDev] \in {"exhausted", "nohw"})

\* In demo mode display 1 has failed three attempts and returned True;
\* display 2 succeeds on its third attempt, after two backoffs.
BoundedRetryWitness ==
  /\ demo_mode
  /\ outcome["d1"] = "exhausted" /\ ret["d1"] = "True"
  /\ pc["main"] = "ret" /\ initDev = "d2"
  /\ outcome["d2"] = "completed" /\ attemptsMade["d2"] = 3
  /\ Len(backoffs["d2"]) = 2

\* C10: the reset line goes high, low, high, held at least 50, 50 and 150
\* ms, and no command is sent in an attempt before the last hold is over.
ResetTiming ==
  /\ Len(rstLog) <= 3
  /\ \A i \in DOMAIN rstLog :
       /\ rstLog[i][1] = <<"HIGH", "LOW", "HIGH">>[i]
       /\ rstLog[i][2] >= <<50, 50, 150>>[i]
  /\ (pc["main"] = "cmds" \/ cmdIdx > 0) => Len(rstLog) = 3

\* The second attempt of display 2 has reset the panel again and has sent
\* its first commands.
ResetTimingWitness ==
  /\ pc["main"] = "cmds" /\ initDev = "d2" /\ attempt = 1
  /\ Len(rstLog) = 3 /\ cmdIdx = 2

(***************************************************************************)
(* Properties of the locks.                                                *)
(***************************************************************************)
\* The lock thread t is about to acquire.
Wanted(t) ==
  IF pc[t] = "acquire_inner" THEN Head(todo[t]).inner ELSE Head(todo[t]).lock

\* Thread t is blocked in acquire().
Waiting(t) ==
  /\ pc[t] \in {"acquire", "acquire_inner"}
  /\ ~CanAcquire(t, Wanted(t))

\* with blocks on spi_lock left in the iteration of thread t.
BusSectionsLeft(t) ==
  Cardinality({i \in DOMAIN todo[t] : todo[t][i].lock = "spi_lock"})

\* C7: no set of threads in which each waits for a lock held by another of
\* the set; a thread holding spi_lock waits for no lock; and an iteration
\* takes spi_lock at most once.
DeadlockFree ==
  /\ \A S \in SUBSET {t \in LockThreads : Waiting(t)} :
       S # {} => \E t \in S : lockHolder[Wanted(t)] \notin S
  /\ \A t \in LockThreads :
       lockHolder["spi_lock"] = t
         => /\ pc[t] = "held"
            /\ \A l \in Locks \ {"spi_lock"} : lockHolder[l] # t
  /\ \A t \in LockThreads : BusSectionsLeft(t) <= 1

\* Every lock is contended at once: display 1 waits for spi_lock held by
\* the touch poll, the rotary callback holds the scroll lock and waits for
\* display1.lock held by a timer, the ticker waits for the LCD lock.
DeadlockFreeWitness ==
  /\ lockHolder["spi_lock"] = "touch"
  /\ Waiting("d1") /\ Wanted("d1") = "spi_lock"
  /\ lockHolder["scroll_lock"] = "rotary"
  /\ Waiting("rotary") /\ lockHolder["display1.lock"] = "timer"
  /\ lockHolder["lcd.lock"] = "lcdsync" /\ Waiting("lcd")
  /\ lockHolder["display2.lock"] = "d2"

(***************************************************************************)
(* Properties of the frame write.                                          *)
(***************************************************************************)
\* C11: pixel data goes out only after the window sequence of the whole
\* panel (CASET + 4 bytes, PASET + 4 bytes, RAMWR) went out under the same
\* hold of spi_lock, with no transfer of another device since; no window
\* outlives the hold it was sent under.
WindowPrecedesPixels ==
  /\ \A d \in Displays :
       pc[d] \in {"data", "written"} =>
         /\ lockHolder["spi_lock"] = d
         /\ winSent.dev = d
         /\ winSent.seq.caset
              = <<42, 0, 0, (ModelWidth - 1) \div 256, (ModelWidth - 1) % 256>>
         /\ winSent.seq.paset
              = <<43, 0, 0, (ModelHeight - 1) \div 256, (ModelHeight - 1) % 256>>
         /\ winSent.seq.ramwr = <<44>>
         /\ leaseDevs = {d}
         /\ lastOwner = d
  /\ lockHolder["spi_lock"] = NoThread => winSent = NoWindow
  /\ winSent # NoWindow => winSent.dev = lockHolder["spi_lock"]

\* Display 2, the last device to use the bus, is about to send pixels: it
\* has sent the window again under this hold.
WindowPrecedesPixelsWitness ==
  /\ pc["d2"] = "data" /\ off["d2"] = 0 /\ winSent.dev = "d2"
  /\ pc["d1"] = "entry" /\ pc["touch"] = "entry"
  /\ outcome["d1"] = "exhausted" /\ spi["d1"] = "None"

(***************************************************************************)
(* The functions of the drivers, each applied on its own to arguments       *)
(* drawn from the sets below.                                               *)
(***************************************************************************)
\* Coordinates _set_window is applied to: the corners of both panels and
\* the ends of the 8-bit and 16-bit ranges.
Coordinates == {0, 1, 255, 256, 319, 479, 65535}

threadVars == <<pc, todo, lockHolder, running, initVars, busVars, touchVars>>

InitCodec ==
  /\ Init
  /\ HARDWARE_AVAILABLE
  /\ ~demo_mode

\* Function f is applied to arguments a and returns o.
Called(f, a, o) ==
  /\ call' = f
  /\ arg' = a
  /\ out' = o
  /\ UNCHANGED <<cfgVars, handlerVars, threadVars>>

\* Each function is applied once, to one choice of arguments.
SetWindowCall ==
  /\ call = "none"
  /\ \E x0 \in Coordinates, y0 \in Coordinates,
        x1 \in Coordinates, y1 \in Coordinates :
       Called("_set_window", <<x0, y0, x1, y1>>,
              WindowSequence(x0, y0, x1, y1))

\* C12: _set_window sends each coordinate as 16 bits, high byte first, every
\* byte in 0..255: CASET carries x0 and x1, PASET carries y0 and y1, RAMWR
\* follows; for (0, 0, 479, 319) the bytes are 00 00 01 DF and 00 00 01 3F.
WindowEncoding ==
  call = "_set_window" =>
    /\ Len(out.caset) = 5 /\ Len(out.paset) = 5
    /\ out.caset[1] = 42 /\ out.paset[1] = 43 /\ out.ramwr = <<44>>
    /\ \A i \in 2..5 : out.caset[i] \in 0..255 /\ out.paset[i] \in 0..255
    /\ out.caset[2] * 256 + out.caset[3] = arg[1]
    /\ out.caset[4] * 256 + out.caset[5] = arg[3]
    /\ out.paset[2] * 256 + out.paset[3] = arg[2]
    /\ out.paset[4] * 256 + out.paset[5] = arg[4]
    /\ arg = <<0, 0, 479, 319>> =>
         /\ out.caset = <<42, 0, 0, 1, 223>>
         /\ out.paset = <<43, 0, 0, 1, 63>>

\* _set_window(0, 0, 479, 319) has been applied.
WindowEncodingWitness ==
  /\ call = "_set_window"
  /\ arg = <<0, 0, 479, 319>>
  /\ out.caset = <<42, 0, 0, 1, 223>>

\* Panel sizes the configuration is given: 480x320 and 320x240 as shipped,
\* and smaller panels.
PanelWidths == {1, 2, 37, 64, 320, 480}
PanelHeights == {1, 3, 32, 240, 320}

Min(a, b) == IF a < b THEN a ELSE b

\* Equal steps of whole pixels: 4095 bytes, a multiple of 3.
ChunksOfWholePixels(n) ==
  [k \in 1..((n + MAX_XFER - 2) \div (MAX_XFER - 1)) |->
     [start |-> (k - 1) * (MAX_XFER - 1),
      stop |-> Min(k * (MAX_XFER - 1), n)]]

\* _data: for i in range(0, len(data), 4096): xfer(data[i:i + 4096]).  The
\* k-th transfer carries the bytes at offsets start .. stop - 1.
Chunks(n) ==
  [k \in 1..((n + MAX_XFER - 1) \div MAX_XFER) |->
     [start |-> (k - 1) * MAX_XFER,
      stop |-> Min((k - 1) * MAX_XFER + MAX_XFER, n)]]

\* _display_image of display d on a w x h panel hands its frame to _data.
DataCall ==
  /\ call = "none"
  /\ \E d \in Displays, w \in PanelWidths, h \in PanelHeights :
       Called("_data", <<d, w * h * BytesPerPixel(d)>>,
              Chunks(w * h * BytesPerPixel(d)))

\* The transfers of out carry, in order, exactly the bytes 0 .. n - 1.
Contiguous(o, n) ==
  /\ \A k \in 1..Len(o) : o[k].start < o[k].stop
  /\ \A k \in 1..Len(o) :
       o[k].start = (IF k = 1 THEN 0 ELSE o[k - 1].stop)
  /\ (IF Len(o) = 0 THEN 0 ELSE o[Len(o)].stop) = n

\* C13: every transfer of a pixel payload carries at most 4096 bytes, the
\* transfers in order make up the payload, and every chunk boundary is a
\* multiple of the device's bytes per pixel (3 for display 1, 2 for
\* display 2).
ChunksKeepPixelsWhole ==
  call = "_data" =>
    /\ \A k \in 1..Len(out) : out[k].stop - out[k].start <= 4096
    /\ Contiguous(out, arg[2])
    /\ \A k \in 1..Len(out) : out[k].stop % BytesPerPixel(arg[1]) = 0

MaxPixels == 2

\* Channel values with and without low bits set.
ByteSamples == {0, 3, 7, 128, 252, 255}
FrameBytes == {0, 7, 254}

\* One pixel with a channel ranging over every byte value, and frames of
\* 1..MaxPixels pixels, as the bytes of img.tobytes(): R, G, B per pixel.
PixelSamples ==
  {<<r, g, b>> : r \in 0..255, g \in ByteSamples, b \in ByteSamples}
    \cup {<<r, g, b>> : r \in ByteSamples, g \in 0..255, b \in ByteSamples}
    \cup {<<r, g, b>> : r \in ByteSamples, g \in ByteSamples, b \in 0..255}
FrameSamples ==
  PixelSamples \cup UNION {[1..(3 * n) -> FrameBytes] : n \in 1..MaxPixels}

\* Python's & and | on non-negative integers.
RECURSIVE BitAnd(_, _)
BitAnd(a, b) ==
  IF a = 0 \/ b = 0 THEN 0
  ELSE (a % 2) * (b % 2) + 2 * BitAnd(a \div 2, b \div 2)

RECURSIVE BitOr(_, _)
BitOr(a, b) ==
  IF a = 0 THEN b
  ELSE IF b = 0 THEN a
  ELSE Max(a % 2, b % 2) + 2 * BitOr(a \div 2, b \div 2)

\* Every byte masked to its top 5 bits.
Encode18Top5(pixels) == [i \in 1..Len(pixels) |-> BitAnd(pixels[i], 248)]

\* ConversationDisplay._display_image: data[i] = pixels[i] & 0xFC.
Encode18(pixels) == [i \in 1..Len(pixels) |-> BitAnd(pixels[i], 252)]

\* The large display encodes a frame of Len(pixels) / 3 pixels in one row;
\* again is the encoding applied to its own result.
DisplayImage18Call ==
  /\ call = "none"
  /\ \E pixels \in FrameSamples :
       Called("_display_image18", <<Len(pixels) \div 3, 1, pixels>>,
              [data |-> Encode18(pixels),
               again |-> Encode18(Encode18(pixels))])

\* C15: the large display emits width*height*3 bytes, byte i being input byte
\* i with its low 2 bits cleared (R, G, B order kept), and encoding the
\* encoded buffer again returns it unchanged.
Packed18 ==
  call = "_display_image18" =>
    /\ Len(out.data) = arg[1] * arg[2] * 3
    /\ \A i \in 1..Len(out.data) :
         /\ out.data[i] = arg[3][i] - (arg[3][i] % 4)
         /\ out.data[i] \in 0..255
    /\ out.again = out.data

\* A two-pixel frame whose bytes all have low bits set has been encoded.
Packed18Witness ==
  /\ call = "_display_image18"
  /\ arg = <<2, 1, <<7, 7, 7, 254, 254, 254>>>>
  /\ out.data = <<4, 4, 4, 252, 252, 252>>

\* Five bits for every channel.
Pixel555(r, g, b) ==
  BitOr(BitOr((r \div 8) * 1024, (g \div 8) * 32), b \div 8)

\* StatusDisplay._display_image:
\* pixel = ((r >> 3) << 11) | ((g >> 2) << 5) | (b >> 3).
Pixel565(r, g, b) ==
  BitOr(BitOr((r \div 8) * 2048, (g \div 4) * 32), b \div 8)

\* The 16-bit values of the pixels of a frame, and the bytes written for
\* them: data[j] = pixel >> 8; data[j + 1] = pixel & 0xFF.
Pixels565(pixels) ==
  [k \in 1..(Len(pixels) \div 3) |->
     Pixel565(pixels[3 * k - 2], pixels[3 * k - 1], pixels[3 * k])]
Encode565(pixels) ==
  [j \in 1..(2 * (Len(pixels) \div 3)) |->
     IF j % 2 = 1 THEN Pixels565(pixels)[(j + 1) \div 2] \div 256
     ELSE BitAnd(Pixels565(pixels)[j \div 2], 255)]

\* The small display encodes a frame of Len(pixels) / 3 pixels in one row.
DisplayImage565Call ==
  /\ call = "none"
  /\ \E pixels \in FrameSamples :
       Called("_display_image565", <<Len(pixels) \div 3, 1, pixels>>,
              [data |-> Encode565(pixels), pixel16 |-> Pixels565(pixels)])

\* C16: the small display emits two bytes per pixel, high byte first, of a
\* 16-bit value holding the top 5 bits of r, the top 6 of g and the top 5 of
\* b; decoding it recovers r & 0xF8, g & 0xFC and b & 0xF8; a frame gives
\* width*height*2 bytes.
Packed565 ==
  call = "_display_image565" =>
    /\ Len(out.data) = arg[1] * arg[2] * 2
    /\ Len(out.pixel16) = arg[1] * arg[2]
    /\ \A i \in 1..Len(out.data) : out.data[i] \in 0..255
    /\ \A k \in 1..Len(out.pixel16) :
         /\ out.pixel16[k] \in 0..65535
         /\ out.pixel16[k] = out.data[2 * k - 1] * 256 + out.data[2 * k]
         /\ out.pixel16[k] = (arg[3][3 * k - 2] \div 8) * 2048
                               + (arg[3][3 * k - 1] \div 4) * 32
                               + (arg[3][3 * k] \div 8)
         /\ (out.pixel16[k] \div 2048) * 8
              = arg[3][3 * k - 2] - (arg[3][3 * k - 2] % 8)
         /\ ((out.pixel16[k] \div 32) % 64) * 4
              = arg[3][3 * k - 1] - (arg[3][3 * k - 1] % 4)
         /\ (out.pixel16[k] % 32) * 8
              = arg[3][3 * k] - (arg[3][3 * k] % 8)

\* A white pixel next to a pixel with only low bits set has been encoded.
Packed565Witness ==
  /\ call = "_display_image565"
  /\ arg = <<2, 1, <<254, 254, 254, 7, 7, 7>>>>
  /\ out.pixel16 = <<65535, 32>>
  /\ out.data = <<255, 255, 0, 32>>

(***************************************************************************)
(* TouchHandler._read_touch as a function of the configuration, of the      *)
(* bytes the controller answers and of the exchange that raises, if any.    *)
(***************************************************************************)

\* The calibration as shipped and one with the two axes' ranges exchanged,
\* each under every setting of the three flags.
TouchProfiles ==
  {[TOUCH EXCEPT !.swap_xy = s, !.invert_x = ix, !.invert_y = iy,
                 !.x_min = c[1], !.x_max = c[2], !.y_min = c[3],
                 !.y_max = c[4]] :
     s \in BOOLEAN, ix \in BOOLEAN, iy \in BOOLEAN,
     c \in {<<572, 3676, 777, 3476>>, <<777, 3476, 572, 3676>>}}

\* Raw readings around the limits of the validity window, at the ends of the
\* calibrated ranges and above 12 bits; the three bits the parse discards.
AxisSamples == {100, 101, 572, 777, 3476, 3676, 3999, 4000, 8191}
PressureSamples == {300, 301, 8191}
LowBits == {0, 7}

\* The three bytes answered to one exchange for raw reading v.
Response(v, low) == <<0, (v * 8 + low) \div 256, (v * 8 + low) % 256>>

\* The parse that keeps 12 bits of the answer.
RawOf12Bits(res) == (BitOr(res[2] * 256, res[3]) \div 8) % 4096

\* x_raw = ((x_result[1] << 8) | x_result[2]) >> 3
Raw(res) == BitOr(res[2] * 256, res[3]) \div 8

\* int() of the quotient n / d: truncation toward zero.  The products
\* n * dim / d of the profiles used are integers or at least 1/d away from
\* one, so the float result truncates to the same integer.
Trunc(n, d) ==
  LET Abs(v) == IF v >= 0 THEN v ELSE -v
      q == Abs(n) \div Abs(d)
  IN  IF (n >= 0) = (d > 0) THEN q ELSE -q

\* A sample is valid whatever the pressure.
ValidByRangeOnly(cfg, x_raw, y_raw, z_raw) ==
  /\ 100 < x_raw /\ x_raw < 4000
  /\ 100 < y_raw /\ y_raw < 4000

Valid(cfg, x_raw, y_raw, z_raw) ==
  /\ z_raw > cfg.min_pressure
  /\ 100 < x_raw /\ x_raw < 4000
  /\ 100 < y_raw /\ y_raw < 4000

\* The mapping without the clamp.
ScreenUnclamped(raw, lo, hi, invert, dim) ==
  IF invert THEN Trunc((hi - raw) * dim, hi - lo)
  ELSE Trunc((raw - lo) * dim, hi - lo)

\* The mapping with the sense of the invert flag exchanged.
ScreenReversed(raw, lo, hi, invert, dim) ==
  Max(0, Min(dim - 1,
             IF invert THEN Trunc((raw - lo) * dim, hi - lo)
             ELSE Trunc((hi - raw) * dim, hi - lo)))

\* One axis: x = int((x_max - x_raw) / (x_max - x_min) * width) if inverted,
\* int((x_raw - x_min) / (x_max - x_min) * width) if not, then
\* max(0, min(width - 1, x)).
Screen(raw, lo, hi, invert, dim) ==
  Max(0, Min(dim - 1,
             IF invert THEN Trunc((hi - raw) * dim, hi - lo)
             ELSE Trunc((raw - lo) * dim, hi - lo)))

NotTouched == <<0, 0, 0, FALSE>>

\* A mapping that leaves the axes as read whatever swap_xy says.
CalibratedUnswapped(cfg, x_raw, y_raw, z_raw) ==
  IF ~Valid(cfg, x_raw, y_raw, z_raw) THEN NotTouched
  ELSE <<Screen(x_raw, cfg.x_min, cfg.x_max, cfg.invert_x,
                SMALL_DISPLAY.width),
         Screen(y_raw, cfg.y_min, cfg.y_max, cfg.invert_y,
                SMALL_DISPLAY.height),
         z_raw, TRUE>>

\* The value returned for the readings x_raw, y_raw, z_raw.
Calibrated(cfg, x_raw, y_raw, z_raw) ==
  IF ~Valid(cfg, x_raw, y_raw, z_raw) THEN NotTouched
  ELSE LET xs == IF cfg.swap_xy THEN y_raw ELSE x_raw
           ys == IF cfg.swap_xy THEN x_raw ELSE y_raw
       IN  IF cfg.x_max = cfg.x_min \/ cfg.y_max = cfg.y_min
           THEN NotTouched
           ELSE <<Screen(xs, cfg.x_min, cfg.x_max, cfg.invert_x,
                         SMALL_DISPLAY.width),
                  Screen(ys, cfg.y_min, cfg.y_max, cfg.invert_y,
                         SMALL_DISPLAY.height),
                  z_raw, TRUE>>

\* _read_touch.  has_spi: self.spi is set; res: the answers to the X, Y and
\* Z exchanges; failAt: the exchange that raises (0: none).  sent lists the
\* exchanges issued, raw the parsed readings, ret the value returned.
_read_touch(cfg, has_spi, res, failAt) ==
  IF ~has_spi THEN [sent |-> <<>>, raw |-> <<>>, ret |-> NotTouched]
  ELSE IF failAt # 0
  THEN [sent |-> [k \in 1..failAt |-> <<TouchCommands[k], 0, 0>>],
        raw |-> <<>>, ret |-> NotTouched]
  ELSE [sent |-> [k \in 1..3 |-> <<TouchCommands[k], 0, 0>>],
        raw |-> <<Raw(res[1]), Raw(res[2]), Raw(res[3])>>,
        ret |-> Calibrated(cfg, Raw(res[1]), Raw(res[2]), Raw(res[3]))]

ReadTouchCall ==
  /\ call = "none"
  /\ \E cfg \in TouchProfiles, has_spi \in BOOLEAN, failAt \in 0..3,
        x \in AxisSamples, y \in AxisSamples, z \in PressureSamples,
        low \in LowBits :
       /\ ~has_spi => (failAt = 0 /\ low = 0)
       /\ Called("_read_touch",
                 [cfg |-> cfg, has_spi |-> has_spi, failAt |-> failAt,
                  res |-> <<Response(x, low), Response(y, low),
                            Response(z, low)>>],
                 _read_touch(cfg, has_spi,
                             <<Response(x, low), Response(y, low),
                               Response(z, low)>>, failAt))

\* A poll whose three exchanges were answered.
Answered == call = "_read_touch" /\ arg.has_spi /\ arg.failAt = 0

Reading(k) == (arg.res[k][2] * 256 + arg.res[k][3]) \div 8

XSource == IF arg.cfg.swap_xy THEN Reading(2) ELSE Reading(1)
YSource == IF arg.cfg.swap_xy THEN Reading(1) ELSE Reading(2)

\* The coordinate a reading at or beyond an end of the calibrated range
\* lo..hi has on an axis of dim pixels.
AtEnds(src, lo, hi, invert, dim, got) ==
  /\ src <= lo => got = (IF invert THEN dim - 1 ELSE 0)
  /\ src >= hi => got = (IF invert THEN 0 ELSE dim - 1)

\* C19: under every setting of the flags, a valid reading at the minimum of
\* an axis maps to 0 and one at the maximum to dimension - 1, the other way
\* round when the axis is inverted; readings outside the range are clamped
\* to the same ends.
CalibrationEndpoints ==
  (call = "_read_touch" /\ out.ret[4]) =>
    /\ AtEnds(XSource, arg.cfg.x_min, arg.cfg.x_max, arg.cfg.invert_x,
              320, out.ret[1])
    /\ AtEnds(YSource, arg.cfg.y_min, arg.cfg.y_max, arg.cfg.invert_y,
              240, out.ret[2])

\* Under the shipped profile (swapped, both inverted) the Y exchange read
\* x_min and the X exchange read y_max.
CalibrationEndpointsWitness ==
  /\ Answered
  /\ arg.cfg = TOUCH
  /\ Reading(1) = 3476 /\ Reading(2) = 572
  /\ out.ret = <<319, 0, Reading(3), TRUE>>

\* C20: every sample reported as touched has 0 <= x <= width - 1 and
\* 0 <= y <= height - 1, whatever the valid readings and the profile.
TouchInsideScreen ==
  (call = "_read_touch" /\ out.ret[4]) =>
    /\ out.ret[1] \in 0..319
    /\ out.ret[2] \in 0..239

\* Readings beyond both calibrated ranges were clamped to the screen.
TouchInsideScreenWitness ==
  /\ Answered
  /\ arg.cfg = TOUCH
  /\ Reading(1) = 101 /\ Reading(2) = 3999 /\ Reading(3) = 8191
  /\ out.ret = <<0, 239, 8191, TRUE>>

\* Valid raw readings a reported sample is compared with: next to the
\* limits of the validity window, at and next to the ends of the calibrated
\* ranges, and inside them.
ComparedReadings ==
  {101, 102, 571, 572, 573, 777, 778, 1000, 2000, 2124, 3000, 3475, 3476,
   3675, 3676, 3677, 3999}

\* The sense of the mapping along one axis: got is the coordinate of raw
\* reading src, other the coordinate of raw reading v.
Monotone(src, got, v, other, invert) ==
  IF invert THEN (v >= src => other <= got) /\ (v <= src => other >= got)
  ELSE (v >= src => other >= got) /\ (v <= src => other <= got)

\* C32: for a sample reported as touched, with swap_xy set screen X depends
\* on the raw Y reading only and screen Y on the raw X reading only (without
\* it, X on raw X and Y on raw Y): replacing the other raw reading by any
\* valid one leaves the coordinate as it is.  Along each axis the coordinate
\* is non-decreasing in the raw reading that feeds it when the axis is not
\* inverted and non-increasing when it is inverted.
SwapAndInvert ==
  (Answered /\ out.ret[4]) =>
    \A v \in ComparedReadings :
      LET cfg == arg.cfg
          x == Reading(1)
          y == Reading(2)
          z == Reading(3)
          vx == Calibrated(cfg, v, y, z)
          vy == Calibrated(cfg, x, v, z)
      IN  IF cfg.swap_xy
          THEN /\ vx[1] = out.ret[1]
               /\ vy[2] = out.ret[2]
               /\ Monotone(y, out.ret[1], v, vy[1], cfg.invert_x)
               /\ Monotone(x, out.ret[2], v, vx[2], cfg.invert_y)
          ELSE /\ vy[1] = out.ret[1]
               /\ vx[2] = out.ret[2]
               /\ Monotone(x, out.ret[1], v, vx[1], cfg.invert_x)
               /\ Monotone(y, out.ret[2], v, vy[2], cfg.invert_y)

\* A swapped, inverted sample inside both calibrated ranges: raw X 3476 gave
\* screen Y 0 and raw Y 777 gave a screen X inside the panel.
SwapAndInvertWitness ==
  /\ Answered
  /\ arg.cfg = TOUCH
  /\ Reading(1) = 3476 /\ Reading(2) = 777
  /\ out.ret[4]
  /\ out.ret[2] = 0
  /\ out.ret[1] > 0 /\ out.ret[1] < 319

(***************************************************************************)
(* OpenClawConfig.load for one attribute (url or password) as a function   *)
(* of what the command line, the environment and the config file hold.    *)
(* A Python value is a record of its type and its text.                    *)
(***************************************************************************)
PyNone == [t |-> "none", s |-> "None"]
Absent == [t |-> "absent", s |-> ""]
StrValue(s) == [t |-> "str", s |-> s]
IntValue(s) == [t |-> "int", s |-> s]
BoolValue(b) == [t |-> "bool", s |-> PyBool(b)]

\* The dataclass defaults of the two attributes.
Defaults == [url |-> StrValue("ws://localhost:18789"), password |-> PyNone]

\* args.url / args.password: not given, empty, given.
CliValues == {PyNone, StrValue(""), StrValue("cli")}
\* os.environ.get: unset, empty, a text, a decimal text, a yes/no text.
EnvValues ==
  {Absent, StrValue(""), StrValue("env"), StrValue("5678"), StrValue("YES")}
\* The key in the JSON file: missing (or no file), null, a text, an empty
\* text, a number, a boolean.
FileValues ==
  {Absent, PyNone, StrValue("file"), StrValue(""), IntValue("1234"),
   BoolValue(TRUE)}

\* `if value:` for a string or None.
Truthy(v) == v.t = "str" /\ v.s # ""

\* str.lower() and int() on the texts of EnvValues.
Lower(s) == IF s = "YES" THEN "yes" ELSE s
IsDecimal(s) == s \in {"5678"}

\* _apply_dict: `if key in data: setattr(self, attr, data[key])`.
_apply_dict(current, in_file) ==
  IF in_file = Absent THEN current ELSE in_file

\* _load_from_env for one variable: the value is converted to the type of
\* the attribute's current value; int() raises ValueError on other texts.
_load_from_env(current, value) ==
  IF ~Truthy(value) THEN [raised |-> FALSE, value |-> current]
  ELSE IF current.t = "bool"
  THEN [raised |-> FALSE,
        value |-> BoolValue(Lower(value.s) \in {"true", "1", "yes"})]
  ELSE IF current.t = "int"
  THEN IF IsDecimal(value.s)
       THEN [raised |-> FALSE, value |-> IntValue(value.s)]
       ELSE [raised |-> TRUE, value |-> current]
  ELSE [raised |-> FALSE, value |-> value]

\* load: the file, then the environment, then the command line.
load(attr, cli, env, in_file) ==
  LET from_file == _apply_dict(Defaults[attr], in_file)
      from_env == _load_from_env(from_file, env)
  IN  IF from_env.raised THEN from_env
      ELSE [raised |-> FALSE,
            value |-> IF Truthy(cli) THEN cli ELSE from_env.value]

LoadCall ==
  /\ call = "none"
  /\ \E attr \in {"url", "password"}, cli \in CliValues, env \in EnvValues,
        in_file \in FileValues :
       Called("load",
              [attr |-> attr, cli |-> cli, env |-> env, file |-> in_file],
              load(attr, cli, env, in_file))

\* C30, as stated: the loaded url and password are resolved by priority
\* command line > environment > config file > default: the value of the
\* highest-priority source that supplies one (a non-empty text on the
\* command line or in the environment, the key in the file) is the loaded
\* value whatever the lower-priority sources contain.
PriorityResolution ==
  call = "load" =>
    /\ ~out.raised
    /\ out.value = (IF Truthy(arg.cli) THEN arg.cli
                    ELSE IF Truthy(arg.env) THEN arg.env
                    ELSE IF arg.file # Absent THEN arg.file
                    ELSE Defaults[arg.attr])

(***************************************************************************)
(* OpenClawConfig.save: the JSON object written to the config file, as a   *)
(* function from its keys to the values of the attributes.                 *)
(***************************************************************************)
FloatValue(s) == [t |-> "float", s |-> s]

\* The keys of `data` in save().
SavedKeys ==
  {"url", "use_tailscale", "tailscale_hostname", "auto_reconnect",
   "reconnect_delay", "max_reconnect_delay", "connection_timeout",
   "streaming_refresh_ms", "normal_refresh_ms", "notification_duration"}

\* The attributes of the dataclass.
Attributes == SavedKeys \cup {"password"}

\* OpenClawConfig(): every attribute at its default.
DefaultConfig ==
  [a \in Attributes |->
     CASE a = "url" -> StrValue("ws://localhost:18789")
       [] a = "password" -> PyNone
       [] a = "use_tailscale" -> BoolValue(FALSE)
       [] a = "tailscale_hostname" -> PyNone
       [] a = "auto_reconnect" -> BoolValue(TRUE)
       [] a = "reconnect_delay" -> FloatValue("1.0")
       [] a = "max_reconnect_delay" -> FloatValue("60.0")
       [] a = "connection_timeout" -> FloatValue("30.0")
       [] a = "streaming_refresh_ms" -> IntValue("100")
       [] a = "normal_refresh_ms" -> IntValue("1000")
       [] a = "notification_duration" -> FloatValue("2.0")]

\* The passwords load() can leave in a configuration.
Passwords ==
  {PyNone, StrValue("cli"), StrValue("env"), StrValue("file"),
   IntValue("1234")}

\* The configurations saved: url, password and two more attributes vary.
SavedConfigs ==
  {[DefaultConfig EXCEPT !["url"] = u, !["password"] = p,
                         !["use_tailscale"] = BoolValue(ts),
                         !["tailscale_hostname"] = h] :
     u \in {StrValue("ws://localhost:18789"), StrValue("cli")},
     p \in Passwords, ts \in BOOLEAN, h \in {PyNone, StrValue("deck")}}

\* A save that writes every attribute.
saveAll(config) == config

\* save: `data` holds the ten attributes of SavedKeys, not the password.
save(config) == [k \in SavedKeys |-> config[k]]

SaveCall ==
  /\ call = "none"
  /\ \E config \in SavedConfigs : Called("save", config, save(config))

\* C40: the file written by save() has no password key; configurations
\* that differ only in their password are saved as the same file.
PasswordNotPersisted ==
  call = "save" =>
    /\ "password" \notin DOMAIN out
    /\ \A p \in Passwords : save([arg EXCEPT !["password"] = p]) = out

PasswordNotPersistedWitness ==
  /\ call = "save"
  /\ arg["password"] = StrValue("cli")
  /\ arg["tailscale_hostname"] = StrValue("deck")
  /\ out["url"] = StrValue("cli")

NextCodec ==
  \/ SetWindowCall
  \/ DataCall
  \/ DisplayImage18Call
  \/ DisplayImage565Call
  \/ ReadTouchCall
  \/ LoadCall
  \/ SaveCall

SpecCodec == InitCodec /\ [][NextCodec]_vars

(***************************************************************************)
(* TouchHandler.run, sample by sample, with the clock: touch starts, the    *)
(* debounce window, and the gesture reported when a touch ends.             *)
(***************************************************************************)
\* What _read_touch hands to the loop: no touch, or a touch in the top or
\* in the bottom half of the screen.
Samples == {NotTouched, <<160, 119, 301, TRUE>>, <<160, 120, 301, TRUE>>}

\* Time an iteration spends in _read_touch (lock wait and exchanges) and in
\* time.sleep before the next iteration, in ms.
ReadTimes == {0, 25}
SleepTimes == {25, 75, 1000}

\* A start is accepted at the end of the window as well.
DebouncedInclusive(current_time) ==
  current_time - last_touch_time >= debounce_ms

\* (current_time - self.last_touch_time) > self.debounce_ms
Debounced(current_time) == current_time - last_touch_time > debounce_ms

\* The half of the screen decides before the duration does.
_handle_touch_by_position(x, y, duration) ==
  IF y < SMALL_DISPLAY.height \div 2 THEN "tap_top"
  ELSE IF duration >= long_press_threshold THEN "long_press"
  ELSE "tap_bottom"

\* _handle_touch: the callback chosen for a touch that started at (x, y) and
\* lasted duration ms.
_handle_touch(x, y, duration) ==
  IF duration >= long_press_threshold THEN "long_press"
  ELSE IF y < SMALL_DISPLAY.height \div 2 THEN "tap_top"
  ELSE "tap_bottom"

\* The position of the sample in which the end of the touch is seen.
EndPosition(sample) == <<sample[1], sample[2]>>

\* self._handle_touch(touch_x, touch_y, duration): the position recorded
\* when the touch started.
StartPosition(sample) == <<touch_x, touch_y>>

InitGesture ==
  /\ InitRun
  /\ spi = [d \in Devices |-> "open"]
  /\ outcome = [d \in Displays |-> "completed"]
  /\ lastOwner = "d2"

\* One iteration of the loop outside demo mode.  sample: what _read_touch
\* returns; dRead: the time it takes; dSleep: the time to the next
\* iteration; raised: the gesture callback raises.
TouchIteration ==
  /\ pc["touch"] = "read"
  /\ \E sample \in Samples, dRead \in ReadTimes, dSleep \in SleepTimes,
        raised \in BOOLEAN :
       LET current_time == now
           afterRead == now + dRead
           is_touching == sample[4]
           tap_detected == is_touching /\ ~was_touched
           ends == ~is_touching /\ was_touched
           reports == ends /\ touch_start_time # None /\ touch_x # None
           duration == afterRead - touch_start_time
           at == StartPosition(sample)
       IN  /\ raised => reports
           /\ afterRead + (IF raised THEN 100 ELSE dSleep)
                <= ClockOrigin + MaxElapsed
           /\ now' = afterRead + (IF raised THEN 100 ELSE dSleep)
           /\ touches' =
                IF tap_detected
                THEN <<[seen |-> current_time, start |-> afterRead,
                        accepted |-> Debounced(current_time),
                        y |-> sample[2], last_y |-> sample[2],
                        held |-> None]>>
                ELSE IF touches = <<>> THEN touches
                ELSE IF ends
                THEN IF touches[1].held = None
                     THEN <<[touches[1] EXCEPT
                               !.held = afterRead - touches[1].start]>>
                     ELSE touches
                ELSE IF touches[1].held # None THEN <<>>
                ELSE <<[touches[1] EXCEPT !.last_y = sample[2]]>>
           /\ events' =
                IF reports
                THEN <<[kind |-> _handle_touch(at[1], at[2], duration),
                        x |-> at[1], y |-> at[2], duration |-> duration]>>
                ELSE <<>>
           /\ IF tap_detected /\ Debounced(current_time)
              THEN /\ touch_start_time' = afterRead
                   /\ touch_x' = sample[1]
                   /\ touch_y' = sample[2]
                   /\ last_touch_time' = current_time
                   /\ was_touched' = is_touching
              ELSE IF ends
              THEN IF raised
                   THEN UNCHANGED <<touch_start_time, touch_x, touch_y,
                                    last_touch_time, was_touched>>
                   ELSE /\ touch_start_time' = None
                        /\ touch_x' = None
                        /\ touch_y' = None
                        /\ was_touched' = is_touching
                        /\ UNCHANGED last_touch_time
              ELSE /\ was_touched' = is_touching
                   /\ UNCHANGED <<touch_start_time, touch_x, touch_y,
                                  last_touch_time>>
  /\ touch_started' = (touch_start_time' # None)
  /\ pc' = [pc EXCEPT !["touch"] = "loop"]
  /\ UNCHANGED <<cfgVars, callVars, rotaryVars, loopVars, calibVars,
                 startupVars, buttonVars, todo, lockHolder, running,
                 initVars, busVars,
                 exchange>>

NextGesture ==
  \/ RunEntry("touch")
  \/ TouchLoop
  \/ TouchIteration

SpecGesture == InitGesture /\ [][NextGesture]_vars

\* C21: a not-touched to touched transition is accepted as a touch start
\* exactly when more than 100 ms have passed since the start accepted
\* before it, whose time last_touch_time holds: of two transitions less
\* than 100 ms apart the second is not a start, of two more than 100 ms
\* apart both are.
Debounce ==
  [][LET seen == ~was_touched /\ was_touched'
         started == touch_start_time = None /\ touch_start_time' # None
     IN  /\ started => (seen /\ now - last_touch_time > 100)
         /\ (seen /\ now - last_touch_time > 100) => started
         /\ (seen /\ now - last_touch_time <= 100)
              => /\ touch_start_time' = None
                 /\ touches'[1].accepted = FALSE
         /\ last_touch_time' = (IF started THEN now ELSE last_touch_time)
         /\ started => touch_start_time' \in {now + d : d \in ReadTimes}
    ]_vars

\* A touch seen 50 ms after an accepted start was not accepted as a start.
DebounceWitness ==
  /\ touches # <<>>
  /\ ~touches[1].accepted
  /\ touches[1].seen - last_touch_time = 50
  /\ was_touched /\ touch_start_time = None

\* The last iteration saw the end of a touch; held is the time from its
\* first touched sample to the sample that showed its end.
TouchEnded == touches # <<>> /\ touches[1].held # None
Taps == {"tap_top", "tap_bottom"}

\* C22, as stated: every touch held for at least 1.0 s is reported as a
\* long press and not as a tap, wherever it is, and every reported tap
\* comes from a touch shorter than 1.0 s.
LongPressAsStated ==
  TouchEnded =>
    /\ touches[1].held >= 1000
         => (events # <<>> /\ events[1].kind = "long_press")
    /\ (events # <<>> /\ events[1].kind \in Taps) => touches[1].held < 1000

\* C22, amended: every touch whose start was accepted and that is held for
\* at least 1.0 s is reported as a long press and not as a tap, wherever it
\* is; every reported tap comes from a touch shorter than 1.0 s; a touch
\* whose start fell inside the debounce window is not reported at all.
LongPress ==
  TouchEnded =>
    /\ (touches[1].accepted /\ touches[1].held >= 1000)
         => (Len(events) = 1 /\ events[1].kind = "long_press")
    /\ (events # <<>> /\ events[1].kind \in Taps) => touches[1].held < 1000
    /\ touches[1].accepted <=> events # <<>>

\* A touch in the top half, held for exactly 1.0 s, was reported as a long
\* press.
LongPressWitness ==
  /\ TouchEnded
  /\ touches[1].accepted /\ touches[1].y = 119 /\ touches[1].held = 1000
  /\ events # <<>> /\ events[1].kind = "long_press" /\ events[1].y = 119

\* C23: a tap is classified by the Y recorded when the touch started, not
\* by a later sample: tap-top when that Y is below height // 2 = 120,
\* tap-bottom otherwise, and the callback is handed the start coordinates.
TapByStartPosition ==
  (TouchEnded /\ events # <<>>) =>
    /\ events[1].x = 160
    /\ events[1].y = touches[1].y
    /\ events[1].kind = "tap_top"
         <=> (events[1].duration < 1000 /\ touches[1].y < 120)
    /\ events[1].kind = "tap_bottom"
         <=> (events[1].duration < 1000 /\ touches[1].y >= 120)

\* A touch that started in the bottom half and was last sampled in the top
\* half was reported as a bottom tap at its start position.
TapByStartPositionWitness ==
  /\ TouchEnded
  /\ touches[1].y = 120 /\ touches[1].last_y = 119
  /\ events # <<>> /\ events[1].kind = "tap_bottom" /\ events[1].y = 120

(***************************************************************************)
(* RotaryHandler: initialize(), run() and _poll_encoder().                  *)
(***************************************************************************)
Levels == {0, 1}

\* The handler as constructed, with or without --demo.
InitRotary ==
  /\ Init
  /\ pc["rotary"] = "unstarted"

\* RotaryHandler.initialize, called by the main thread.  gpio: RPi.GPIO
\* could be imported; ok: no GPIO call raises; clk, sw: the levels read.
RotaryInitialize ==
  /\ rotary_ok = "none"
  /\ IF demo_mode
     THEN /\ _initialized' = TRUE
          /\ rotary_ok' = "True"
          /\ UNCHANGED <<_last_clk_state, _last_button_state, sampled>>
     ELSE \E gpio \in (IF HARDWARE_AVAILABLE THEN {TRUE} ELSE BOOLEAN),
             ok \in BOOLEAN, clk \in Levels, sw \in Levels :
            IF gpio /\ ok
            THEN /\ _last_clk_state' = clk
                 /\ _last_button_state' = sw
                 /\ sampled' = [clk |-> clk, sw |-> sw]
                 /\ _initialized' = TRUE
                 /\ rotary_ok' = "True"
            ELSE /\ rotary_ok' = "False"
                 /\ UNCHANGED <<_initialized, _last_clk_state,
                                _last_button_state, sampled>>
  /\ UNCHANGED <<cfgVars, callVars, gestureVars, loopVars, calibVars,
                 startupVars, buttonVars, polled, threadVars>>

\* DisplayCommandCenter.run starts the thread of RotaryHandler.run.
RotaryStart ==
  /\ pc["rotary"] = "unstarted"
  /\ pc' = [pc EXCEPT !["rotary"] = "entry"]
  /\ UNCHANGED <<cfgVars, callVars, handlerVars, todo, lockHolder, running,
                 initVars, busVars, touchVars>>

\* `while self.running:`; in demo mode the iteration only sleeps.
RotaryLoop ==
  /\ pc["rotary"] = "loop"
  /\ pc' = [pc EXCEPT !["rotary"] =
              IF ~running["rotary"] THEN "exit"
              ELSE IF demo_mode THEN "loop"
              ELSE "poll"]
  /\ UNCHANGED <<cfgVars, callVars, handlerVars, todo, lockHolder, running,
                 initVars, busVars, touchVars>>

\* RotaryHandler.stop.
RotaryStop ==
  /\ running["rotary"]
  /\ running' = [running EXCEPT !["rotary"] = FALSE]
  /\ UNCHANGED <<cfgVars, callVars, handlerVars, pc, todo, lockHolder,
                 initVars, busVars, touchVars>>

\* The callbacks a poll invokes when nothing raises.
RotationOf(clk, dt) ==
  IF clk # _last_clk_state /\ clk = 0
  THEN <<IF dt = 1 THEN "cw" ELSE "ccw">> ELSE <<>>
PressOf(sw) ==
  IF sw = 0 /\ _last_button_state = 1 THEN <<"press">> ELSE <<>>

\* _poll_encoder, followed by the sleep of run().  clk, dt, sw: the levels
\* of the three lines; failAt: the statement that raises ("clk", "dt",
\* "sw": that GPIO.input; "rotate", "press": that callback), all caught by
\* the except clause.
_poll_encoder ==
  /\ pc["rotary"] = "poll"
  /\ pc' = [pc EXCEPT !["rotary"] = "loop"]
  /\ IF ~_initialized \/ demo_mode
     THEN /\ polled' = [NoPoll EXCEPT !.prev_clk = sampled.clk,
                                      !.prev_sw = sampled.sw]
          /\ UNCHANGED <<_last_clk_state, _last_button_state, sampled>>
     ELSE \E clk \in Levels, dt \in Levels, sw \in Levels,
             failAt \in {"none", "clk", "dt", "sw", "rotate", "press"} :
            LET read == [clk |-> IF failAt = "clk" THEN None ELSE clk,
                         dt |-> IF failAt \in {"clk", "dt"} THEN None
                                ELSE dt,
                         sw |-> IF failAt \in {"clk", "dt", "sw"} THEN None
                                ELSE sw,
                         prev_clk |-> sampled.clk, prev_sw |-> sampled.sw,
                         events |-> <<>>]
            IN  /\ failAt = "rotate" => RotationOf(clk, dt) # <<>>
                /\ failAt = "press" => PressOf(sw) # <<>>
                /\ sampled' = [clk |-> IF read.clk = None THEN sampled.clk
                                       ELSE read.clk,
                               sw |-> IF read.sw = None THEN sampled.sw
                                      ELSE read.sw]
                /\ CASE failAt \in {"clk", "dt", "sw"} ->
                          /\ polled' = read
                          /\ UNCHANGED <<_last_clk_state,
                                         _last_button_state>>
                     [] failAt = "rotate" ->
                          /\ polled' =
                               [read EXCEPT !.events = RotationOf(clk, dt)]
                          /\ UNCHANGED <<_last_clk_state,
                                         _last_button_state>>
                     [] failAt = "press" ->
                          /\ polled' =
                               [read EXCEPT !.events =
                                  RotationOf(clk, dt) \o PressOf(sw)]
                          /\ _last_clk_state' = clk
                          /\ UNCHANGED _last_button_state
                     [] OTHER ->
                          /\ polled' =
                               [read EXCEPT !.events =
                                  RotationOf(clk, dt) \o PressOf(sw)]
                          /\ _last_clk_state' = clk
                          /\ _last_button_state' = sw
  /\ UNCHANGED <<cfgVars, callVars, gestureVars, loopVars, calibVars,
                 startupVars, buttonVars, _initialized, rotary_ok, todo,
                 lockHolder,
                 running, initVars, busVars, touchVars>>

NextRotary ==
  \/ RotaryInitialize
  \/ RotaryStart
  \/ RunEntry("rotary")
  \/ RotaryLoop
  \/ _poll_encoder
  \/ RotaryStop

SpecRotary == InitRotary /\ [][NextRotary]_vars

\* The rotation callbacks among the callbacks of the last poll.
Rotations == SelectSeq(polled.events, LAMBDA e : e \in {"cw", "ccw"})
Presses == SelectSeq(polled.events, LAMBDA e : e = "press")

\* C24: a poll emits exactly one rotation event when the clock level it
\* reads is 0 and the level read before was 1, clockwise if the data line
\* reads 1 and counter-clockwise if 0, and none otherwise: not on a rising
\* edge, not on an unchanged clock, not before initialize(), not in demo
\* mode.
OneRotationPerFallingEdge ==
  /\ (polled.clk = 0 /\ polled.prev_clk = 1)
       => Rotations = <<IF polled.dt = 1 THEN "cw" ELSE "ccw">>
  /\ ~(polled.clk = 0 /\ polled.prev_clk = 1) => Rotations = <<>>
  /\ (~_initialized \/ demo_mode) => polled.events = <<>>

\* C25: a poll emits exactly one press event when the button level it reads
\* is 0 and the level read before was 1, and none otherwise.
OnePressPerFallingEdge ==
  /\ (polled.sw = 0 /\ polled.prev_sw = 1) => Presses = <<"press">>
  /\ ~(polled.sw = 0 /\ polled.prev_sw = 1) => Presses = <<>>

\* C26: stop() only clears the running flags, and a loop leaves only from
\* its `while self.running:` test, between two iterations and without the
\* lease; a transaction in progress goes on transfer by transfer whatever
\* the flag, and ends by its last transfer or by an I/O error.
StopBetweenTransactions ==
  [][\A t \in BusThreads :
       /\ (pc[t] # "exit" /\ pc'[t] = "exit")
            => /\ pc[t] = "loop" /\ ~running[t]
               /\ lockHolder["spi_lock"] # t
               /\ lockHolder' = lockHolder
       /\ (running[t] /\ ~running'[t])
            => /\ \A u \in BusThreads : pc'[u] = pc[u]
               /\ UNCHANGED <<lockHolder, busVars, exchange>>
       /\ (InTransaction(t) /\ pc'[t] # pc[t])
            => \/ InTransaction(t)' /\ lockHolder'["spi_lock"] = t
               \/ /\ pc'[t] \in {"loop", "sample", "no_sample"}
                  /\ lockHolder["spi_lock"] = t
                  /\ lockHolder'["spi_lock"] = NoThread
    ]_vars

\* stop() has been called and the touch loop has ended, while display 1
\* has sent the last chunk of a frame and still holds the lease.
StopBetweenTransactionsWitness ==
  /\ pc["main"] = "stopped" /\ ~running["d1"]
  /\ pc["d1"] = "written" /\ off["d1"] >= FrameLen("d1")
  /\ lockHolder["spi_lock"] = "d1"
  /\ pc["touch"] = "exit"

(***************************************************************************)
(* SpecLoops : the four polling loops, one action per iteration.  An       *)
(* iteration either completes or raises; what raises, where it is caught   *)
(* and which time.sleep follows is taken from each loop's code.            *)
(***************************************************************************)

\* The delays of the loops, in milliseconds.
normal_refresh_interval_ms == 1000
refresh_interval_ms == 100
display2_interval_ms == 500
render_error_sleep_ms == 1000
poll_interval_ms == 5
touch_error_sleep_ms == 100
rotary_poll_sleep_ms == 1

\* What an iteration of each loop can raise: a display iteration raises in
\* its callbacks or in render (a bus write); a touch iteration raises in the
\* bus read, which _read_touch catches itself, or in a gesture callback; a
\* rotary iteration raises in a GPIO read or in a callback, inside
\* _poll_encoder.
Raises(t) ==
  CASE t \in Displays -> {"callback", "render"}
    [] t = "touch" -> {"read", "callback"}
    [] t = "rotary" -> {"read", "callback"}

\* The errors caught by the except clause of the loop itself; the others are
\* caught inside the call the loop makes and the iteration runs to its end.
CaughtByLoop(t, err) ==
  \/ t \in Displays
  \/ t = "touch" /\ err = "callback"

\* The argument of the time.sleep that ends a completed iteration.
IterationSleep(t, streaming) ==
  CASE t = "d1" -> IF streaming THEN refresh_interval_ms
                   ELSE normal_refresh_interval_ms
    [] t = "d2" -> display2_interval_ms
    [] t = "touch" -> poll_interval_ms
    [] t = "rotary" -> rotary_poll_sleep_ms

\* The argument of the time.sleep of the loop's except clause.
ErrorSleep(t) ==
  CASE t \in Displays -> render_error_sleep_ms
    [] t = "touch" -> touch_error_sleep_ms

\* An except clause that ends the loop instead of going on.
AfterErrorLeaves(t) == "exit"

\* Where the loop is after its except clause: back at the while test.
AfterError(t) == "loop"

\* Where the body of each loop starts.
BodyOf(t) ==
  CASE t \in Displays -> "frame"
    [] t = "touch" -> "read"
    [] t = "rotary" -> "poll"

InitLoops ==
  /\ InitGesture
  /\ pc["rotary"] = "unstarted"

\* One iteration of the loop of t, from after the while test to the next
\* while test.
LoopIteration(t) ==
  /\ pc[t] = BodyOf(t)
  /\ \E err \in Raises(t) \cup {"none"}, streaming \in BOOLEAN :
       /\ streaming => t = "d1"
       /\ caught' = [caught EXCEPT ![t] = err]
       /\ IF err # "none" /\ CaughtByLoop(t, err)
          THEN /\ slept' = [slept EXCEPT ![t] = ErrorSleep(t)]
               /\ pc' = [pc EXCEPT ![t] = AfterError(t)]
          ELSE /\ slept' = [slept EXCEPT ![t] = IterationSleep(t, streaming)]
               /\ pc' = [pc EXCEPT ![t] = "loop"]
  /\ UNCHANGED <<cfgVars, callVars, gestureVars, rotaryVars, calibVars,
                 startupVars, buttonVars, todo, lockHolder, running,
                 initVars, busVars,
                 touchVars>>

NextLoops ==
  \/ \E t \in BusThreads : RunEntry(t)
  \/ RotaryStart
  \/ RunEntry("rotary")
  \/ \E d \in Displays : RenderLoop(d)
  \/ TouchLoop
  \/ RotaryLoop
  \/ \E t \in LoopThreads : LoopIteration(t)
  \/ Stop

SpecLoops == InitLoops /\ [][NextLoops]_vars

\* C27: a runtime error never ends a polling loop.  A loop reaches its end
\* only from its while test with its running flag cleared; an iteration that
\* raises changes no running flag, is followed by the fixed delay of the
\* clause that caught the error (1 s in a display loop, 100 ms in the touch
\* loop for a callback error, the 5 ms and 1 ms poll delays for the errors
\* caught inside _read_touch and _poll_encoder) and leaves the loop at its
\* while test, from which it runs its next iteration while the flag is set.
LoopsSurviveErrors ==
  [][\A t \in LoopThreads :
       /\ (pc'[t] = "exit" /\ pc[t] # "exit")
            => (pc[t] = "loop" /\ ~running[t])
       /\ (pc[t] = BodyOf(t) /\ pc'[t] # pc[t])
            => /\ pc'[t] = "loop"
               /\ running' = running
               /\ (caught'[t] # "none") =>
                    slept'[t] = (CASE t \in Displays -> 1000
                                   [] t = "touch" /\ caught'[t] = "callback"
                                        -> 100
                                   [] t = "touch" -> 5
                                   [] t = "rotary" -> 1)
       /\ (pc[t] = "loop" /\ running[t] /\ pc'[t] # pc[t])
            => pc'[t] = BodyOf(t)]_vars

\* Every loop has caught an error in its last iteration, has slept and is
\* in its next iteration with its running flag still set.
LoopsSurviveErrorsWitness ==
  /\ \A t \in LoopThreads :
       /\ caught[t] # "none"
       /\ slept[t] > 0
       /\ running[t]
       /\ pc[t] = BodyOf(t)
  /\ caught["touch"] = "callback"

(***************************************************************************)
(* SpecCalibration : the touch controller from TouchHandler.initialize to  *)
(* its polls, under calibrations that a configuration can hold.            *)
(***************************************************************************)

\* The calibration as shipped; an X range and a Y range of zero width; an
\* X range whose maximum is below its minimum.
Calibrations ==
  {TOUCH,
   [TOUCH EXCEPT !.x_max = TOUCH.x_min],
   [TOUCH EXCEPT !.y_max = TOUCH.y_min],
   [TOUCH EXCEPT !.x_min = TOUCH.x_max, !.x_max = TOUCH.x_min]}

\* Raw readings of a poll: outside the validity window, and inside it at
\* the ends of the shipped ranges.
PollSamples == {100, 572, 3476}

\* A calibration with a usable range on both axes.
InRange(cfg) == cfg.x_max > cfg.x_min /\ cfg.y_max > cfg.y_min

\* DisplayCommandCenter.initialize has set up both displays and is about to
\* set up the touch controller.
InitCalibration ==
  /\ InitCommon
  /\ calibration \in Calibrations
  /\ touch_ok = "none"
  /\ pc = [t \in Threads |-> IF t = "main" THEN "touch_init"
                             ELSE "unstarted"]
  /\ spi = [d \in Devices |-> IF d \in Displays THEN "open" ELSE "None"]
  /\ spiCfg = [n \in Nodes |-> IF n = Node("d1") THEN OwnCfg("d1")
                               ELSE OwnCfg("d2")]
  /\ lastOwner = "d2"
  /\ initDev = "none"
  /\ attemptsMade = [d \in Displays |-> 0]
  /\ backoffs = [d \in Displays |-> <<>>]
  /\ outcome = [d \in Displays |-> "completed"]
  /\ ret = [d \in Displays |-> "True"]
  /\ cs = "unset"

\* x, y, z, is_touching = self._read_touch(): one poll, under the
\* calibration in effect.
TouchPoll ==
  /\ pc["touch"] = "read"
  /\ \E x \in PollSamples, y \in PollSamples, z \in {300, 301},
        failAt \in {0, 1, 2} :
       LET has_spi == spi["touch"] # "None"
           res == <<Response(x, 0), Response(y, 0), Response(z, 0)>>
           o == _read_touch(calibration, has_spi, res, failAt)
       IN  /\ ~has_spi => failAt = 0
           /\ spi["touch"] = "unopened" => failAt = 1
           /\ call' = "_read_touch"
           /\ arg' = [cfg |-> calibration, has_spi |-> has_spi,
                      failAt |-> failAt, res |-> res]
           /\ out' = o
           /\ pc' = [pc EXCEPT !["touch"] =
                       IF has_spi /\ failAt = 0 THEN "sample"
                       ELSE "no_sample"]
  /\ UNCHANGED <<cfgVars, handlerVars, todo, lockHolder, running, initVars,
                 busVars, touchVars>>

NextCalibration ==
  \/ TouchInitialize
  \/ StartThreads
  \/ RunEntry("touch")
  \/ TouchLoop
  \/ TouchPoll
  \/ TouchSample

SpecCalibration == InitCalibration /\ [][NextCalibration]_vars

\* C28, as stated: a calibration out of range (an axis whose raw maximum
\* is equal to or below its raw minimum) is rejected by initialization:
\* TouchHandler.initialize does not return True under it, and the polling
\* loop performs no poll under it.
ConfigurationErrorIsFatal ==
  ~InRange(calibration) =>
    /\ touch_ok # "True"
    /\ call # "_read_touch"

(***************************************************************************)
(* SpecStartup : DisplayCommandCenter.initialize from the return of the    *)
(* second display's initialize() on, then DisplayCommandCenter.run and    *)
(* the loops it starts, until stop().  Iterations that raise are followed  *)
(* in SpecLoops.                                                           *)
(***************************************************************************)

\* Both displays' initialize() have returned: each completed an attempt,
\* exhausted its attempts or found the hardware libraries missing; in demo
\* mode it returns True whatever happened.  The locals of the finished
\* calls are not kept, and a display that failed has left no handle.
InitStartup ==
  /\ InitCommon
  /\ calibration = TOUCH
  /\ touch_ok = "none"
  /\ pc = [t \in Threads |-> IF t = "main" THEN "ret" ELSE "unstarted"]
  /\ initDev = "d2"
  /\ outcome \in [Displays -> {"completed", "exhausted", "nohw"}]
  /\ \A d \in Displays : outcome[d] = "nohw" <=> ~HARDWARE_AVAILABLE
  /\ ret = [d \in Displays |->
              PyBool(outcome[d] = "completed" \/ demo_mode)]
  /\ spi = [d \in Devices |->
              IF d \in Displays /\ outcome[d] = "completed" THEN "open"
              ELSE "None"]
  /\ spiCfg = [n \in Nodes |->
                 IF \E d \in Displays : Node(d) = n /\ spi[d] = "open"
                 THEN OwnCfg(CHOOSE d \in Displays : Node(d) = n)
                 ELSE DefaultCfg]
  /\ lastOwner = IF spi["d2"] = "open" THEN "d2"
                 ELSE IF spi["d1"] = "open" THEN "d1" ELSE "none"
  /\ attemptsMade = [d \in Displays |-> 0]
  /\ backoffs = [d \in Displays |-> <<>>]
  /\ cs = "unset"

\* self.rotary.initialize(), after the touch controller.
StartupRotary ==
  /\ pc["main"] = "start"
  /\ RotaryInitialize

\* self.lcd.initialize(): True in demo mode, False without the RPLCD
\* library or when CharLCD or the first update raises, True otherwise.
LcdInitialize ==
  /\ pc["main"] = "start"
  /\ rotary_ok # "none"
  /\ lcd_ok = "none"
  /\ \E LCD_AVAILABLE \in BOOLEAN, raised \in BOOLEAN :
       lcd_ok' = PyBool(demo_mode \/ (LCD_AVAILABLE /\ ~raised))
  /\ UNCHANGED <<cfgVars, callVars, gestureVars, rotaryVars, loopVars,
                 calibVars, init_ok, buttonVars,
                 threadVars>>

\* An initialize that fails when any peripheral failed.
InitializeResultStrict ==
  PyBool(touch_ok = "True" /\ rotary_ok = "True" /\ lcd_ok = "True")

\* What initialize returns once the displays passed: the results of the
\* touch controller, the encoder and the LCD are only printed.
InitializeResult == "True"

\* `return True` of DisplayCommandCenter.initialize.
InitializeReturns ==
  /\ pc["main"] = "start"
  /\ lcd_ok # "none"
  /\ init_ok = "none"
  /\ init_ok' = InitializeResult
  /\ UNCHANGED <<cfgVars, callVars, gestureVars, rotaryVars, loopVars,
                 calibVars, lcd_ok, buttonVars,
                 threadVars>>

\* main(): `if not app.initialize(): sys.exit(1)`, else app.run().
Run ==
  /\ init_ok = "True"
  /\ StartThreads

\* An iteration of a loop that raises nothing.
Iterates(t) ==
  /\ LoopIteration(t)
  /\ caught'[t] = "none"

\* LCDTicker.run: `while self.running:`.
LcdLoop ==
  /\ pc["lcd"] = "loop"
  /\ pc' = [pc EXCEPT !["lcd"] = IF running["lcd"] THEN "tick" ELSE "exit"]
  /\ UNCHANGED <<cfgVars, callVars, handlerVars, todo, lockHolder, running,
                 initVars, busVars, touchVars>>

\* One iteration of the ticker: the display is updated only when the LCD
\* was initialized, and _update_display catches what the write raises.
LcdTick ==
  /\ pc["lcd"] = "tick"
  /\ pc' = [pc EXCEPT !["lcd"] = "loop"]
  /\ UNCHANGED <<cfgVars, callVars, handlerVars, todo, lockHolder, running,
                 initVars, busVars, touchVars>>

StartupLoops == LoopThreads \cup {"lcd"}

NextStartup ==
  \/ InitializeReturned("d2")
  \/ TouchInitialize
  \/ StartupRotary
  \/ LcdInitialize
  \/ InitializeReturns
  \/ Run
  \/ \E t \in StartupLoops : RunEntry(t)
  \/ \E d \in Displays : RenderLoop(d)
  \/ TouchLoop
  \/ RotaryLoop
  \/ LcdLoop
  \/ \E t \in LoopThreads : Iterates(t)
  \/ LcdTick

SpecStartup == InitStartup /\ [][NextStartup]_vars

\* Both displays' initialize() returned False outside demo mode.
NoDisplays == ret["d1"] = "False" /\ ret["d2"] = "False" /\ ~demo_mode

\* C29: application initialization fails only when both displays failed
\* outside demo mode.  In every other case no failure of one display, of the
\* touch controller, of the encoder or of the LCD makes it fail: once the
\* LCD was set up it returns True, run() starts the loop of every peripheral
\* whatever the results were, and until stop() every started loop has its
\* running flag set and is in its loop, not at its end.
HardwareAbsenceFallback ==
  /\ pc["main"] = "exit" => NoDisplays
  /\ (NoDisplays /\ pc["main"] # "ret") => pc["main"] = "exit"
  /\ init_ok # "False"
  /\ pc["main"] = "wait" => init_ok = "True"
  /\ pc["main"] = "wait" =>
       \A t \in StartupLoops :
         /\ pc[t] \in {"entry", "loop", "tick"}
                      \cup {BodyOf(u) : u \in LoopThreads}
         /\ pc[t] # "entry" => running[t]

\* One display, the touch controller, the encoder and the LCD all failed to
\* initialize on real hardware; initialize returned True and the loop of the
\* remaining display is in its second iteration.
HardwareAbsenceFallbackWitness ==
  /\ HARDWARE_AVAILABLE /\ ~demo_mode
  /\ ret["d1"] = "False" /\ ret["d2"] = "True"
  /\ touch_ok = "False" /\ rotary_ok = "False" /\ lcd_ok = "False"
  /\ init_ok = "True"
  /\ pc["main"] = "wait"
  /\ slept["d2"] > 0 /\ pc["d2"] = "frame"
  /\ \A t \in StartupLoops : pc[t] # "entry" /\ running[t]

(***************************************************************************)
(* The transfers of _init_display on the wire: what _command and _data put *)
(* on the bus for the steps of the attempt issued so far.                  *)
(***************************************************************************)
\* A _command that leaves the data/command line high.
CommandTransferHigh(c) == [dc |-> "HIGH", bytes |-> <<c>>]

\* _command(cmd): data/command line low, one transfer of the command byte.
CommandTransfer(c) == [dc |-> "LOW", bytes |-> <<c>>]

\* _data(data): data/command line high, the bytes in transfers of at most
\* 4096 bytes; nothing is called for a step without payload.
DataTransfers(data) ==
  [k \in 1..Len(Chunks(Len(data))) |->
     [dc |-> "HIGH",
      bytes |-> SubSeq(data, Chunks(Len(data))[k].start + 1,
                       Chunks(Len(data))[k].stop)]]

\* The transfers of the first k steps of display d's _init_display.
RECURSIVE InitTransfers(_, _)
InitTransfers(d, k) ==
  IF k = 0 THEN <<>>
  ELSE InitTransfers(d, k - 1)
         \o <<CommandTransfer(InitSeq(d)[k].cmd)>>
         \o DataTransfers(InitSeq(d)[k].data)

\* The encoding of display d's frame writes, applied to RGB bytes.
FrameEncoding(d, pixels) ==
  IF d = "d1" THEN Encode18(pixels) ELSE Encode565(pixels)

\* The transfers of w with the data/command line low, in order.
RECURSIVE CommandsOf(_)
CommandsOf(w) ==
  IF w = <<>> THEN <<>>
  ELSE (IF Head(w).dc = "LOW" THEN <<Head(w).bytes>> ELSE <<>>)
         \o CommandsOf(Tail(w))

\* The payload transferred directly after the command byte c in w.
PayloadAfter(w, c) ==
  LET i == CHOOSE i \in 1..Len(w) : w[i] = [dc |-> "LOW", bytes |-> <<c>>]
  IN  IF i < Len(w) /\ w[i + 1].dc = "HIGH" THEN w[i + 1].bytes ELSE <<>>

\* C31: in every state of a display's initialization the transfers issued
\* by the current attempt are: each command byte alone with the
\* data/command line low, its payload, if any, in the transfer directly
\* after with the line high, the commands being the display's own list in
\* order.  When the attempt completes, the list started with software reset
\* (0x01) and sleep out (0x11), ended with normal display on (0x13) and
\* display on (0x29), and the pixel format payload was 0x66 on the large
\* display, whose frame encoding takes 3 bytes per pixel, and 0x55 on the
\* small display, whose frame encoding takes 2 bytes per pixel.
InitCommandsOrdered ==
  \A d \in Displays :
    (initDev = d /\ pc["main"] \in {"cmds", "ret"}) =>
      LET w == InitTransfers(d, cmdIdx)
          cmds == CommandsOf(w)
          n == Len(cmds)
      IN  /\ n = cmdIdx
          /\ \A i \in 1..n : cmds[i] = <<InitSeq(d)[i].cmd>>
          /\ \A i \in 1..Len(w) :
               w[i].dc = "HIGH" =>
                 /\ i > 1 /\ w[i - 1].dc = "LOW"
                 /\ \E j \in 1..cmdIdx :
                      /\ w[i - 1].bytes = <<InitSeq(d)[j].cmd>>
                      /\ w[i].bytes = InitSeq(d)[j].data
          /\ \A j \in 1..cmdIdx :
               InitSeq(d)[j].data # <<>> =>
                 PayloadAfter(w, InitSeq(d)[j].cmd) = InitSeq(d)[j].data
          /\ (pc["main"] = "ret" /\ outcome[d] = "completed") =>
               /\ cmds[1] = <<1>> /\ cmds[2] = <<17>>
               /\ cmds[n - 1] = <<19>> /\ cmds[n] = <<41>>
               /\ PayloadAfter(w, 58) = (IF d = "d1" THEN <<102>>
                                         ELSE <<85>>)
               /\ Len(FrameEncoding(d, <<255, 255, 255>>))
                    = (IF PayloadAfter(w, 58) = <<102>> THEN 3 ELSE 2)
               /\ BytesPerPixel(d)
                    = Len(FrameEncoding(d, <<255, 255, 255>>))

\* Both displays completed their command lists.
InitCommandsOrderedWitness ==
  /\ pc["main"] = "ret" /\ initDev = "d2"
  /\ outcome = [d \in Displays |-> "completed"]
  /\ cmdIdx = Len(InitSeqSmall)
  /\ Len(InitTransfers("d2", cmdIdx)) = 40

\* C33, as stated: the touch controller's chip select is low only while the
\* touch poller holds spi_lock; whenever the lock is free or held by a
\* display the chip select is high, also after a touch read that failed
\* with a transfer error.
ChipSelectUnderLock ==
  lockHolder["spi_lock"] # "touch" => cs # "LOW"

\* C34, as stated: a gesture callback is invoked only for an accepted touch
\* start (touch_start_time is set), and the invocation uses that start up:
\* after the iteration that invoked the callback no start is pending, so a
\* second invocation needs a new accepted start, also when the callback
\* raised.
GesturesPairWithStarts ==
  [][(pc["touch"] = "read" /\ pc'["touch"] = "loop" /\ events' # <<>>)
       => /\ touch_start_time # None
          /\ touch_start_time' = None
          /\ ~was_touched']_vars

\* C35, as stated: after every poll of an initialized, non-demo handler that
\* sampled the three lines, the stored last clock level and last button
\* level are the levels sampled in that poll, also when a rotation or press
\* callback raised.
LastLevelsAreSampled ==
  (pc["rotary"] = "loop" /\ polled.sw # None) =>
    /\ _last_clk_state = polled.clk
    /\ _last_button_state = polled.sw

(***************************************************************************)
(* SpecStop : the four loops under fair scheduling: a thread that can take *)
(* a step eventually takes one.  stop() is called at any moment after the  *)
(* threads were started.  Iterations that raise are followed in SpecLoops. *)
(***************************************************************************)
\* The steps of the thread of loop t.
ThreadStep(t) ==
  \/ RunEntry(t)
  \/ t \in Displays /\ RenderLoop(t)
  \/ t = "touch" /\ TouchLoop
  \/ t = "rotary" /\ (RotaryStart \/ RotaryLoop)
  \/ Iterates(t)

NextStop ==
  \/ \E t \in LoopThreads : ThreadStep(t)
  \/ Stop

SpecStop ==
  /\ InitLoops
  /\ [][NextStop]_vars
  /\ \A t \in LoopThreads : WF_vars(ThreadStep(t))

\* C36, as stated: once stop() has been called, every component's run()
\* loop eventually returns, whenever the call came relative to the start of
\* run() in the component's thread.
StopIsEffective ==
  \A t \in LoopThreads : (pc["main"] = "stopped") ~> (pc[t] = "exit")

(***************************************************************************)
(* SpecShutdown : the running application of Spec, all three handles open, *)
(* followed through stop() and cleanup().                                  *)
(***************************************************************************)
\* The components whose cleanup() closes an SPI handle, in the order of
\* DisplayCommandCenter.cleanup.
CleanupOrder == <<"d1", "d2", "touch">>

\* The rest of stop(): `thread.join(timeout=2.0)` for every thread.  A join
\* returns when its thread has ended or when the timeout has passed,
\* whatever the thread is doing; then run() returns and main() calls
\* cleanup().
Join ==
  /\ pc["main"] = "stopped"
  /\ pc' = [pc EXCEPT !["main"] = "cleanup_d1"]
  /\ UNCHANGED <<cfgVars, callVars, handlerVars, todo, lockHolder, running,
                 initVars, busVars, touchVars>>

\* cleanup() of the k-th component: self.stop(), then self.spi.close() when
\* a handle exists.  After close() every transfer on the handle raises, as
\* on a handle that was never opened.
Cleanup(k) ==
  LET dev == CleanupOrder[k]
  IN  /\ pc["main"] = "cleanup_" \o dev
      /\ running' = [running EXCEPT ![dev] = FALSE]
      /\ spi' = [spi EXCEPT ![dev] = IF spi[dev] = "None" THEN "None"
                                      ELSE "unopened"]
      /\ pc' = [pc EXCEPT !["main"] =
                  IF k < Len(CleanupOrder)
                  THEN "cleanup_" \o CleanupOrder[k + 1] ELSE "done"]
      /\ UNCHANGED <<cfgVars, callVars, handlerVars, todo, lockHolder,
                     initVars, spiCfg, lastOwner, leaseDevs, off, cs,
                     winSent, touchVars>>

InitShutdown ==
  /\ InitGesture
  /\ pc["main"] = "wait"

NextShutdown ==
  \/ NextRun
  \/ Join
  \/ \E k \in 1..Len(CleanupOrder) : Cleanup(k)

SpecShutdown == InitShutdown /\ [][NextShutdown]_vars

\* C37, as stated: when cleanup() closes the handle of a device, no thread
\* is inside a bus transaction (a frame write or a touch read) on that
\* device.
CleanupOutsideTransactions ==
  [][\A dev \in Devices :
       (pc["main"] = "cleanup_" \o dev /\ pc'["main"] # pc["main"]
          /\ spi[dev] # "None")
         => ~InTransaction(dev)]_vars

(***************************************************************************)
(* SpecButtons : the command buttons of DisplayCommandCenter.  on_tap,     *)
(* on_long_press, on_notification and the timers they start, each handler  *)
(* one step; time passes in steps of TickMs.  The timers are daemon        *)
(* threads that fire once their delay has passed.                          *)
(***************************************************************************)
\* Taps on command buttons in one behaviour.
MaxTaps == 2
\* The time one Tick lets pass, in ms; a timer fires at the first Tick
\* boundary at or after its delay.
TickMs == 1000
\* threading.Timer(15.0, command_timeout)
command_timeout_ms == 15000
\* _reset_button_after_delay(.., 1.0) after "done" and when not connected
success_reset_ms == 1000
\* _reset_button_after_delay(.., 1.5) after "fail"
error_reset_ms == 1500

NoResponse == "No response received."

Timer(kind, b, inv, delay) ==
  [kind |-> kind, btn |-> b, inv |-> inv, remaining |-> delay]

\* display2.set_button_state(button_id, state)
set_button_state(states, b, state) == [states EXCEPT ![b] = state]

\* on_tap on button b; connected is what bridge.is_connected() answers.
on_tap(b, connected) ==
  /\ pc["main"] = "wait"
  /\ taps < MaxTaps
  /\ taps' = taps + 1
  /\ IF connected
     THEN /\ button_state' = set_button_state(button_state, b, "running")
          /\ _active_button_id' = b
          /\ status_text' = "Executing"
          /\ activeInvocation' = taps + 1
          /\ timers' = timers \cup
               {Timer("timeout", b, taps + 1, command_timeout_ms)}
     ELSE /\ button_state' = set_button_state(button_state, b, "error")
          /\ timers' = timers \cup {Timer("reset", b, 0, success_reset_ms)}
          /\ UNCHANGED <<_active_button_id, status_text, activeInvocation>>
  /\ UNCHANGED <<cfgVars, callVars, gestureVars, rotaryVars, loopVars,
                 calibVars, startupVars, threadVars>>

\* on_long_press on the button area: cancel the current operation.
on_long_press(connected) ==
  /\ pc["main"] = "wait"
  /\ IF connected /\ _active_button_id # "None"
     THEN /\ button_state' = [b \in Buttons |-> "normal"]
          /\ _active_button_id' = "None"
          /\ activeInvocation' = 0
     ELSE UNCHANGED <<button_state, _active_button_id, activeInvocation>>
  /\ UNCHANGED <<status_text, timers, taps>>
  /\ UNCHANGED <<cfgVars, callVars, gestureVars, rotaryVars, loopVars,
                 calibVars, startupVars, threadVars>>

\* on_notification with the status derived from the message.
on_notification(status) ==
  /\ pc["main"] = "wait"
  /\ IF _active_button_id # "None" /\ status \in {"done", "fail"}
     THEN /\ button_state' =
               set_button_state(button_state, _active_button_id,
                                IF status = "done" THEN "success"
                                ELSE "error")
          /\ timers' = timers \cup
               {Timer("reset", _active_button_id, 0,
                      IF status = "done" THEN success_reset_ms
                      ELSE error_reset_ms)}
     ELSE UNCHANGED <<button_state, timers>>
  /\ UNCHANGED <<_active_button_id, status_text, taps, activeInvocation>>
  /\ UNCHANGED <<cfgVars, callVars, gestureVars, rotaryVars, loopVars,
                 calibVars, startupVars, threadVars>>

\* A timer whose delay has passed runs its function: reset() of
\* _reset_button_after_delay, or command_timeout() of on_tap.
TimerFires(tm) ==
  /\ tm \in timers
  /\ tm.remaining <= 0
  /\ timers' = timers \ {tm}
  /\ IF tm.kind = "reset"
     THEN /\ button_state' = set_button_state(button_state, tm.btn, "normal")
          /\ IF _active_button_id = tm.btn
             THEN _active_button_id' = "None" /\ activeInvocation' = 0
             ELSE UNCHANGED <<_active_button_id, activeInvocation>>
          /\ UNCHANGED status_text
     ELSE IF _active_button_id = tm.btn
          THEN /\ status_text' = NoResponse
               /\ button_state' =
                    set_button_state(button_state, tm.btn, "normal")
               /\ _active_button_id' = "None"
               /\ activeInvocation' = 0
          ELSE UNCHANGED <<button_state, _active_button_id, status_text,
                           activeInvocation>>
  /\ UNCHANGED taps
  /\ UNCHANGED <<cfgVars, callVars, gestureVars, rotaryVars, loopVars,
                 calibVars, startupVars, threadVars>>

\* TickMs pass while no started timer is due.
Tick ==
  /\ timers # {}
  /\ \A tm \in timers : tm.remaining > 0
  /\ timers' = {[tm EXCEPT !.remaining = @ - TickMs] : tm \in timers}
  /\ UNCHANGED <<_active_button_id, button_state, status_text, taps,
                 activeInvocation>>
  /\ UNCHANGED <<cfgVars, callVars, gestureVars, rotaryVars, loopVars,
                 calibVars, startupVars, threadVars>>

Expiry == \E tm \in timers : TimerFires(tm)

NextButtons ==
  \/ \E b \in Buttons, connected \in BOOLEAN : on_tap(b, connected)
  \/ \E connected \in BOOLEAN : on_long_press(connected)
  \/ \E status \in {"done", "fail", "info"} : on_notification(status)
  \/ Expiry
  \/ Tick

SpecButtons ==
  /\ InitShutdown
  /\ [][NextButtons]_vars
  /\ WF_vars(Tick)
  /\ WF_vars(Expiry)

\* C38, as stated: a button in the "running" state eventually shows
\* "normal" again, whatever is tapped and whenever notifications arrive.
RunningReturnsToNormal ==
  \A b \in Buttons :
    (button_state[b] = "running") ~> (button_state[b] = "normal")

\* C39, as stated: a command timeout that acts (it finds its button active
\* and resets it) belongs to the invocation that is active.
TimeoutActsOnOwnCommand ==
  [][\A tm \in timers :
       (tm.kind = "timeout" /\ tm.remaining <= 0 /\ tm \notin timers'
          /\ _active_button_id = tm.btn /\ _active_button_id' = "None"
          /\ status_text' = NoResponse)
         => tm.inv = activeInvocation]_vars
====
